---- MODULE Spec2Model ----
(***************************************************************************)
(* Model of the keyframe-handle transformation engine of resolve-easing    *)
(* (reference-old/src/easing/bezier-handles.js) and of the                 *)
(* fusion:applyEasing IPC handler of the Electron main process that        *)
(* drives it.                                                              *)
(*                                                                         *)
(* JavaScript numbers are modelled as exact rationals: the integer n       *)
(* stands for the number n / Unit.  Every frame, value and control point   *)
(* the model enumerates is a multiple of 1/Unit whose products and thirds  *)
(* are again multiples of 1/Unit, so the arithmetic below is exact;        *)
(* IEEE-754 rounding is not modelled.                                      *)
(***************************************************************************)
EXTENDS Integers, Sequences, FiniteSets, TLC

----------------------------------------------------------------------------
(* Numbers                                                                 *)

\* One model unit is 1/6000: thirds (linear handles) and thousandths
\* (control points with three decimals) of halves stay integral.
Unit == 2 * 3 * 1000
Half == Unit \div 2

\* a * (m / 1000), m a control-point coordinate in thousandths
MulMilli(a, m) == (a * m) \div 1000

----------------------------------------------------------------------------
(* JavaScript values                                                       *)

Undef == <<"undefined">>
Null == <<"null">>
NaN == <<"NaN">>
FunV == <<"function">>
NumV(n) == <<"number", n>>
StrV(s) == <<"string", s>>
Ref(a) == <<"ref", a>>

IsNum(v) == v[1] = "number"
IsRef(v) == v[1] = "ref"
\* typeof v === 'number' (NaN is a number)
TypeofNumber(v) == v[1] \in {"number", "NaN"}
\* typeof v === 'object' (null is an object)
TypeofObject(v) == v[1] \in {"ref", "null"}

\* the strings the model's inputs use, and what Number() makes of them
ParseNumber(s) ==
  CASE s = "5" -> NumV(5 * Unit)
    [] s = "0.5" -> NumV(Half)
    [] s = "" -> NumV(0)
    [] OTHER -> NaN

\* JavaScript truthiness
Truthy(v) ==
  CASE v[1] = "number" -> v[2] # 0
    [] v[1] = "string" -> v[2] # ""
    [] v[1] \in {"ref", "function"} -> TRUE
    [] OTHER -> FALSE

----------------------------------------------------------------------------
(* Heap of objects.  A cell is a keyframe table (an object keyed by frame) *)
(* or an object/array with the properties the code reads: value, 0, 1,     *)
(* LH, RH, x, y.  A property that is absent reads as undefined.            *)

Props == {"value", "0", "1", "LH", "RH", "x", "y"}
NoProps == [q \in Props |-> Undef]

TableCell(m) == [k |-> "table", arr |-> FALSE, p |-> NoProps, m |-> m]
ObjCell(arr, p) == [k |-> "obj", arr |-> arr, p |-> p, m |-> <<>>]

\* {value: v} with optional LH, RH
KfObj(v, lh, rh) == ObjCell(FALSE, [NoProps EXCEPT !["value"] = v, !["LH"] = lh, !["RH"] = rh])
\* [v] with optional array-attached LH, RH
KfArr(v, lh, rh) == ObjCell(TRUE, [NoProps EXCEPT !["0"] = v, !["LH"] = lh, !["RH"] = rh])
\* [x, y]
Vec(x, y) == ObjCell(TRUE, [NoProps EXCEPT !["0"] = x, !["1"] = y])
\* {x: x, y: y}
XY(x, y) == ObjCell(FALSE, [NoProps EXCEPT !["x"] = x, !["y"] = y])

\* Objects are allocated at the end of the heap: after Append(h, cell) the
\* new object is the last one.
New(h) == Ref(Len(h) + 1)

\* Array.isArray(v)
IsArray(h, v) == IsRef(v) /\ h[v[2]].arr

\* v.q for a value v that is not null or undefined
Get(h, v, q) == IF IsRef(v) THEN h[v[2]].p[q] ELSE Undef

\* Number([e]) for an array of one element
ElementToNumber(e) ==
  CASE e[1] = "number" -> e
    [] e[1] = "string" -> ParseNumber(e[2])
    [] e[1] \in {"undefined", "null"} -> NumV(0)
    [] OTHER -> NaN

\* Number(v)
ToNumber(h, v) ==
  CASE v[1] = "number" -> v
    [] v[1] = "NaN" -> NaN
    [] v[1] = "string" -> ParseNumber(v[2])
    [] v[1] = "null" -> NumV(0)
    [] v[1] = "ref" ->
         \* an array of one primitive converts through its element, [] is 0,
         \* any other object is NaN
         IF h[v[2]].arr /\ h[v[2]].p["1"] = Undef
         THEN ElementToNumber(h[v[2]].p["0"])
         ELSE NaN
    [] OTHER -> NaN

\* Number(v) || 0
OrZero(n) == IF Truthy(n) THEN n ELSE NumV(0)
NumberOrZero(h, v) == OrZero(ToNumber(h, v))

----------------------------------------------------------------------------
(* Easing Curve Catalog                                                    *)

\* BEZIER_PRESETS, coordinates in thousandths
BEZIER_PRESETS ==
  [ linear |-> <<0, 0, 1000, 1000>>,
    easeInSine |-> <<120, 0, 390, 0>>,
    easeOutSine |-> <<610, 1000, 880, 1000>>,
    easeInOutSine |-> <<370, 0, 630, 1000>>,
    easeInQuad |-> <<110, 0, 500, 0>>,
    easeOutQuad |-> <<500, 1000, 890, 1000>>,
    easeInOutQuad |-> <<450, 0, 550, 1000>>,
    easeInCubic |-> <<320, 0, 670, 0>>,
    easeOutCubic |-> <<330, 1000, 680, 1000>>,
    easeInOutCubic |-> <<650, 0, 350, 1000>>,
    easeInQuart |-> <<500, 0, 750, 0>>,
    easeOutQuart |-> <<250, 1000, 500, 1000>>,
    easeInOutQuart |-> <<760, 0, 240, 1000>>,
    easeInQuint |-> <<640, 0, 780, 0>>,
    easeOutQuint |-> <<220, 1000, 360, 1000>>,
    easeInOutQuint |-> <<830, 0, 170, 1000>>,
    easeInExpo |-> <<700, 0, 840, 0>>,
    easeOutExpo |-> <<160, 1000, 300, 1000>>,
    easeInOutExpo |-> <<870, 0, 130, 1000>>,
    easeInCirc |-> <<550, 0, 1000, 450>>,
    easeOutCirc |-> <<0, 550, 450, 1000>>,
    easeInOutCirc |-> <<850, 0, 150, 1000>>,
    easeInBack |-> <<600, -280, 735, 45>>,
    easeOutBack |-> <<265, 955, 400, 1275>>,
    easeInOutBack |-> <<680, -550, 265, 1550>> ]

\* Property names every object inherits from Object.prototype: a lookup
\* BEZIER_PRESETS[name] finds them although the table does not own them.
InheritedNames == {"toString", "constructor", "hasOwnProperty", "valueOf"}

\* BEZIER_PRESETS[easingName] || null; <<"points", quadruple>>, a function
\* inherited from the prototype, or null
getBezierPoints(easingName) ==
  IF easingName \in DOMAIN BEZIER_PRESETS THEN <<"points", BEZIER_PRESETS[easingName]>>
  ELSE IF easingName \in InheritedNames THEN FunV
  ELSE Null

\* BEZIER_PRESETS.hasOwnProperty(easingName)
isSingleBezier(easingName) == easingName \in DOMAIN BEZIER_PRESETS

\* a listing that walks the prototype chain too
listSupportedEasings_WithInherited == DOMAIN BEZIER_PRESETS \cup InheritedNames

\* Object.keys(BEZIER_PRESETS), as a set
listSupportedEasings == DOMAIN BEZIER_PRESETS

getSupportedEasingGroups ==
  [ Basic |-> <<"linear">>,
    Sine |-> <<"easeInSine", "easeOutSine", "easeInOutSine">>,
    Quad |-> <<"easeInQuad", "easeOutQuad", "easeInOutQuad">>,
    Cubic |-> <<"easeInCubic", "easeOutCubic", "easeInOutCubic">>,
    Quart |-> <<"easeInQuart", "easeOutQuart", "easeInOutQuart">>,
    Quint |-> <<"easeInQuint", "easeOutQuint", "easeInOutQuint">>,
    Expo |-> <<"easeInExpo", "easeOutExpo", "easeInOutExpo">>,
    Circ |-> <<"easeInCirc", "easeOutCirc", "easeInOutCirc">>,
    Back |-> <<"easeInBack", "easeOutBack", "easeInOutBack">> ]

----------------------------------------------------------------------------
(* Handle Calculator                                                       *)

Handles(rx, ry, lx, ly) ==
  [t |-> "handles", rh1 |-> [x |-> rx, y |-> ry], lh2 |-> [x |-> lx, y |-> ly]]
NoHandles == [t |-> "null", rh1 |-> [x |-> 0, y |-> 0], lh2 |-> [x |-> 0, y |-> 0]]
HandlesThrow == [t |-> "TypeError", rh1 |-> [x |-> 0, y |-> 0], lh2 |-> [x |-> 0, y |-> 0]]

\* the linear branch: handles at one third of the segment
LinearHandles(frameDelta, valueDelta) ==
  Handles(frameDelta \div 3, valueDelta \div 3,
          (0 - frameDelta) \div 3, (0 - valueDelta) \div 3)

\* the absolute control points returned as they are, not as offsets
BezierHandles_Absolute(bezier, frame1, value1, frame2, value2) ==
  Handles(frame1 * Unit + MulMilli((frame2 - frame1) * Unit, bezier[1]),
          value1 + MulMilli(value2 - value1, bezier[2]),
          frame1 * Unit + MulMilli((frame2 - frame1) * Unit, bezier[3]),
          value1 + MulMilli(value2 - value1, bezier[4]))

\* both offsets taken from the first keyframe
BezierHandles_FromStart(bezier, frame1, value1, frame2, value2) ==
  Handles(MulMilli((frame2 - frame1) * Unit, bezier[1]),
          MulMilli(value2 - value1, bezier[2]),
          MulMilli((frame2 - frame1) * Unit, bezier[3]),
          MulMilli(value2 - value1, bezier[4]))

\* the general branch: absolute control points, then offsets from each keyframe
BezierHandles(bezier, frame1, value1, frame2, value2) ==
  LET frameDelta == (frame2 - frame1) * Unit
      valueDelta == value2 - value1
      p1x == frame1 * Unit + MulMilli(frameDelta, bezier[1])
      p1y == value1 + MulMilli(valueDelta, bezier[2])
      p2x == frame1 * Unit + MulMilli(frameDelta, bezier[3])
      p2y == value1 + MulMilli(valueDelta, bezier[4])
  IN Handles(p1x - frame1 * Unit, p1y - value1, p2x - frame2 * Unit, p2y - value2)

\* calculateHandles without the linear branch: linear goes through its
\* catalog entry (0, 0, 1, 1)
HandlesFor_NoLinearBranch(bezier, easingName, frame1, value1, frame2, value2) ==
  IF bezier = Null THEN NoHandles
  ELSE IF bezier = FunV THEN HandlesThrow
  ELSE BezierHandles(bezier[2], frame1, value1, frame2, value2)

\* the body of calculateHandles once the catalog has answered.  A name
\* inherited from the prototype gives a function, which the destructuring
\* assignment cannot iterate.
HandlesFor(bezier, easingName, frame1, value1, frame2, value2) ==
  IF bezier = Null THEN NoHandles
  ELSE IF bezier = FunV THEN HandlesThrow
  ELSE IF easingName = "linear"
       THEN LinearHandles((frame2 - frame1) * Unit, value2 - value1)
       ELSE BezierHandles(bezier[2], frame1, value1, frame2, value2)

\* calculateHandles(easingName, frame1, value1, frame2, value2); frames are
\* integers, values are in model units
calculateHandles(easingName, frame1, value1, frame2, value2) ==
  HandlesFor(getBezierPoints(easingName), easingName, frame1, value1, frame2, value2)

----------------------------------------------------------------------------
(* Keyframe-Set Transformer.  Every operation takes the heap and returns   *)
(* the heap it leaves behind with either the value returned or the error   *)
(* thrown.                                                                 *)

Returned(h, v) == [st |-> "ok", err |-> "", h |-> h, v |-> v]
Thrown(h, err) == [st |-> "throw", err |-> err, h |-> h, v |-> Undef]

ErrNotFound == "Keyframes must exist"
ErrRange == "frame1 must be less than frame2"
ErrTooFew == "Need at least 2 keyframes to apply easing"
ErrType == "TypeError"

RECURSIVE SortAscending(_)
\* Object.keys(table).map(Number).sort((a, b) => a - b)
SortAscending(S) ==
  IF S = {} THEN <<>>
  ELSE LET lo == CHOOSE x \in S : \A y \in S : x <= y
       IN <<lo>> \o SortAscending(S \ {lo})

\* the sorted frames of the table a reference names
FramesOf(h, table) == SortAscending(DOMAIN h[table[2]].m)

Includes(seq, x) == \E i \in 1..Len(seq) : seq[i] = x

\* result[frame] = v on the table at address ra
PutFrame(h, ra, frame, v) ==
  [h EXCEPT ![ra].m = [f \in DOMAIN h[ra].m \cup {frame} |->
                         IF f = frame THEN v ELSE h[ra].m[f]]]

\* obj.q = v on the object that the reference o names
PutProp(h, o, q, v) == [h EXCEPT ![o[2]].p[q] = v]

\* the value of one keyframe in any of the shapes the clone loops accept:
\* [v], {value: v}, {0: v}, or the bare value itself
KfValue(h, kf) ==
  IF IsArray(h, kf) THEN Get(h, kf, "0")
  ELSE IF TypeofObject(kf) /\ Get(h, kf, "value") # Undef THEN Get(h, kf, "value")
  ELSE IF TypeofObject(kf) /\ Get(h, kf, "0") # Undef THEN Get(h, kf, "0")
  ELSE kf

\* result[frame] = { value }
NewEntry(h, ra, frame, value) ==
  PutFrame(Append(h, KfObj(value, Undef, Undef)), ra, frame, New(h))

\* entry.q = handle when it is an array, else entry.q = [handle.x, handle.y]
CopyHandle(h, entry, q, handle) ==
  IF IsArray(h, handle) THEN PutProp(h, entry, q, handle)
  ELSE PutProp(Append(h, Vec(Get(h, handle, "x"), Get(h, handle, "y"))), entry, q, New(h))

\* if (origKf && origKf.q) entry.q = ...
PreserveHandle(h, origKf, entry, q) ==
  IF Truthy(origKf) /\ Truthy(Get(h, origKf, q))
  THEN CopyHandle(h, entry, q, Get(h, origKf, q))
  ELSE h

\* a clone that copies the value and the LH but not the RH
PairCloneOne_DropsRH(h, kf, ra, frame) ==
  PreserveHandle(NewEntry(h, ra, frame, KfValue(h, kf)), kf, New(h), "LH")

\* a shallow clone: result[frame] = existingKeyframes[frame]
PairCloneOne_Shallow(h, kf, ra, frame) == PutFrame(h, ra, frame, kf)

\* a clone that copies the value only, as applyEasingToKeyframes does
PairCloneOne_ValueOnly(h, kf, ra, frame) == NewEntry(h, ra, frame, KfValue(h, kf))

\* one round of the clone loop of applyEasingToKeyframePair on keyframe kf
PairCloneOne(h, kf, ra, frame) ==
  PreserveHandle(
    PreserveHandle(NewEntry(h, ra, frame, KfValue(h, kf)), kf, New(h), "LH"),
    kf, New(h), "RH")

RECURSIVE PairClone(_, _, _, _, _)
\* for (const frame of frames) { ... } from position i on; reading a
\* property of a null keyframe throws
PairClone(h, ek, ra, frames, i) ==
  IF i > Len(frames) THEN Returned(h, Ref(ra))
  ELSE IF h[ek[2]].m[frames[i]] = Null THEN Thrown(h, ErrType)
  ELSE PairClone(PairCloneOne(h, h[ek[2]].m[frames[i]], ra, frames[i]),
                 ek, ra, frames, i + 1)

\* the two handles written to the wrong ends: LH on frame1, RH on frame2
SetPairHandles_Swapped(h, ra, frame1, frame2, handles) ==
  PutProp(
    Append(
      PutProp(Append(h, Vec(NumV(handles.rh1.x), NumV(handles.rh1.y))),
              h[ra].m[frame2], "RH", New(h)),
      Vec(NumV(handles.lh2.x), NumV(handles.lh2.y))),
    h[ra].m[frame1], "LH", Ref(Len(h) + 2))

\* coordinate i of handle q of the cloned keyframe at a frame, 0 when absent
OldOffset(h, ra, frame, q, i) ==
  IF Get(h, h[ra].m[frame], q) = Undef THEN 0
  ELSE Get(h, Get(h, h[ra].m[frame], q), i)[2]

\* the new handles added to the ones the keyframes carry (+= for =)
SetPairHandles_Accumulates(h, ra, frame1, frame2, handles) ==
  PutProp(
    Append(
      PutProp(Append(h, Vec(NumV(OldOffset(h, ra, frame1, "RH", "0") + handles.rh1.x),
                            NumV(OldOffset(h, ra, frame1, "RH", "1") + handles.rh1.y))),
              h[ra].m[frame1], "RH", New(h)),
      Vec(NumV(OldOffset(h, ra, frame2, "LH", "0") + handles.lh2.x),
          NumV(OldOffset(h, ra, frame2, "LH", "1") + handles.lh2.y))),
    h[ra].m[frame2], "LH", Ref(Len(h) + 2))

\* result[frame1].RH = [rh1.x, rh1.y]; result[frame2].LH = [lh2.x, lh2.y]
SetPairHandles(h, ra, frame1, frame2, handles) ==
  PutProp(
    Append(
      PutProp(Append(h, Vec(NumV(handles.rh1.x), NumV(handles.rh1.y))),
              h[ra].m[frame1], "RH", New(h)),
      Vec(NumV(handles.lh2.x), NumV(handles.lh2.y))),
    h[ra].m[frame2], "LH", Ref(Len(h) + 2))

\* if (handles) { ... } return result
ApplyHandles(h, ra, frame1, frame2, handles) ==
  IF handles.t = "TypeError" THEN Thrown(h, ErrType)
  ELSE IF handles.t = "null" THEN Returned(h, Ref(ra))
  ELSE Returned(SetPairHandles(h, ra, frame1, frame2, handles), Ref(ra))

\* the value of the cloned keyframe at a frame, in model units
ResultValue(h, ra, frame) == Get(h, h[ra].m[frame], "value")[2]

\* the part of applyEasingToKeyframePair after the clone
PairAfterClone(c, easingName, frame1, frame2) ==
  IF c.st = "throw" THEN c
  ELSE ApplyHandles(c.h, c.v[2], frame1, frame2,
         calculateHandles(easingName, frame1, ResultValue(c.h, c.v[2], frame1),
                          frame2, ResultValue(c.h, c.v[2], frame2)))

\* applyEasingToKeyframePair without the check of the order of the frames
PairWithFrames_NoRangeCheck(h, ek, easingName, frame1, frame2, frames) ==
  IF ~Includes(frames, frame1) \/ ~Includes(frames, frame2) THEN Thrown(h, ErrNotFound)
  ELSE PairAfterClone(PairClone(Append(h, TableCell(<<>>)), ek, Len(h) + 1, frames, 1),
                      easingName, frame1, frame2)

\* applyEasingToKeyframePair once frames is computed
PairWithFrames(h, ek, easingName, frame1, frame2, frames) ==
  IF ~Includes(frames, frame1) \/ ~Includes(frames, frame2) THEN Thrown(h, ErrNotFound)
  ELSE IF frame1 >= frame2 THEN Thrown(h, ErrRange)
  ELSE PairAfterClone(PairClone(Append(h, TableCell(<<>>)), ek, Len(h) + 1, frames, 1),
                      easingName, frame1, frame2)

\* applyEasingToKeyframePair(existingKeyframes, easingName, frame1, frame2)
applyEasingToKeyframePair(h, ek, easingName, frame1, frame2) ==
  PairWithFrames(h, ek, easingName, frame1, frame2, FramesOf(h, ek))

\* one round of the clone loop of applyEasingToKeyframes: the value only
AllCloneOne(h, kf, ra, frame) == NewEntry(h, ra, frame, KfValue(h, kf))

RECURSIVE AllClone(_, _, _, _, _)
AllClone(h, ek, ra, frames, i) ==
  IF i > Len(frames) THEN Returned(h, Ref(ra))
  ELSE IF h[ek[2]].m[frames[i]] = Null THEN Thrown(h, ErrType)
  ELSE AllClone(AllCloneOne(h, h[ek[2]].m[frames[i]], ra, frames[i]),
                ek, ra, frames, i + 1)

RECURSIVE AllPairs(_, _, _, _, _)
\* for (let i = 0; i < frames.length - 1; i++) { ... }, i counted from 1:
\* c is the result so far
AllPairs(c, ra, easingName, frames, i) ==
  IF c.st = "throw" \/ i > Len(frames) - 1 THEN c
  ELSE AllPairs(
         ApplyHandles(c.h, ra, frames[i], frames[i + 1],
           calculateHandles(easingName, frames[i], ResultValue(c.h, ra, frames[i]),
                            frames[i + 1], ResultValue(c.h, ra, frames[i + 1]))),
         ra, easingName, frames, i + 1)

\* applyEasingToKeyframes without the check of the number of keyframes
AllWithFrames_NoCountCheck(h, ek, easingName, frames) ==
  AllPairs(AllClone(Append(h, TableCell(<<>>)), ek, Len(h) + 1, frames, 1),
           Len(h) + 1, easingName, frames, 1)

\* applyEasingToKeyframes once frames is computed
AllWithFrames(h, ek, easingName, frames) ==
  IF Len(frames) < 2 THEN Thrown(h, ErrTooFew)
  ELSE AllPairs(AllClone(Append(h, TableCell(<<>>)), ek, Len(h) + 1, frames, 1),
                Len(h) + 1, easingName, frames, 1)

\* applyEasingToKeyframes(existingKeyframes, easingName)
applyEasingToKeyframes(h, ek, easingName) ==
  AllWithFrames(h, ek, easingName, FramesOf(h, ek))

----------------------------------------------------------------------------
(* Format Adapter                                                          *)

\* obj.q = [Number(a[0]) || 0, Number(a[1]) || 0]
PutCleanHandle(h, entry, q, a) ==
  PutProp(Append(h, Vec(NumberOrZero(h, Get(h, a, "0")), NumberOrZero(h, Get(h, a, "1")))),
          entry, q, New(h))

\* the value read at index 0 whatever the shape of the keyframe
FromRawValue_IndexOnly(h, data) == Get(h, data, "0")

\* what fromFusionFormat first reads as the value of one keyframe
FromRawValue(h, data) ==
  IF IsArray(h, data) THEN Get(h, data, "0")
  ELSE IF TypeofObject(data) /\ data # Null THEN Get(h, data, "value")
  ELSE data

\* a value that is never unwrapped
Unwrap_Never(h, value) == value

\* if (typeof value === 'object' && value !== null && value.value !== undefined)
\*   value = value.value
Unwrap(h, value) ==
  IF TypeofObject(value) /\ value # Null /\ Get(h, value, "value") # Undef
  THEN Get(h, value, "value") ELSE value

\* if (typeof value !== 'number') value = Number(value) || 0
EnsureNumber(h, value) == IF TypeofNumber(value) THEN value ELSE NumberOrZero(h, value)

\* the numeric value fromFusionFormat stores for one keyframe
FromValue(h, data) == EnsureNumber(h, Unwrap(h, FromRawValue(h, data)))

\* a handle that is always read as an array
FromHandleOf_ArrayOnly(h, entry, q, src) == PutCleanHandle(h, entry, q, src)

\* const lh = Array.isArray(src) ? src : [src.x, src.y]; entry.q = [..]
FromHandleOf(h, entry, q, src) ==
  IF IsArray(h, src) THEN PutCleanHandle(h, entry, q, src)
  ELSE PutCleanHandle(Append(h, Vec(Get(h, src, "x"), Get(h, src, "y"))), entry, q, New(h))

\* if (data && data.q) { ... }
FromHandle(h, data, entry, q) ==
  IF Truthy(data) /\ Truthy(Get(h, data, q)) THEN FromHandleOf(h, entry, q, Get(h, data, q))
  ELSE h

\* one round of the loop of fromFusionFormat on keyframe data
FromOne(h, data, ra, frame) ==
  FromHandle(
    FromHandle(NewEntry(h, ra, frame, FromValue(h, data)), data, New(h), "LH"),
    data, New(h), "RH")

RECURSIVE FromLoop(_, _, _, _, _)
FromLoop(h, fk, ra, frames, i) ==
  IF i > Len(frames) THEN Returned(h, Ref(ra))
  ELSE FromLoop(FromOne(h, h[fk[2]].m[frames[i]], ra, frames[i]), fk, ra, frames, i + 1)

\* fromFusionFormat(fusionKeyframes)
fromFusionFormat(h, fk) ==
  FromLoop(Append(h, TableCell(<<>>)), fk, Len(h) + 1, FramesOf(h, fk), 1)

\* if (data.q && Array.isArray(data.q)) entry.q = [..]
ToHandle(h, data, entry, q) ==
  IF Truthy(Get(h, data, q)) /\ IsArray(h, Get(h, data, q))
  THEN PutCleanHandle(h, entry, q, Get(h, data, q))
  ELSE h

\* result[frameNum] = [value]
NewArrayEntry(h, ra, frame, value) ==
  PutFrame(Append(h, KfArr(value, Undef, Undef)), ra, frame, New(h))

\* one round of the loop of toFusionFormat on keyframe data
ToOne(h, data, ra, frame) ==
  ToHandle(
    ToHandle(NewArrayEntry(h, ra, frame, EnsureNumber(h, Get(h, data, "value"))),
             data, New(h), "LH"),
    data, New(h), "RH")

RECURSIVE ToLoop(_, _, _, _, _)
\* reading data.value of a null or undefined keyframe throws
ToLoop(h, keyframes, ra, frames, i) ==
  IF i > Len(frames) THEN Returned(h, Ref(ra))
  ELSE IF h[keyframes[2]].m[frames[i]] \in {Null, Undef} THEN Thrown(h, ErrType)
  ELSE ToLoop(ToOne(h, h[keyframes[2]].m[frames[i]], ra, frames[i]),
              keyframes, ra, frames, i + 1)

\* toFusionFormat(keyframes)
toFusionFormat(h, keyframes) ==
  ToLoop(Append(h, TableCell(<<>>)), keyframes, Len(h) + 1, FramesOf(h, keyframes), 1)

----------------------------------------------------------------------------
(* The chain fold of the fusion:applyEasing handler                        *)

RECURSIVE SortList(_)
\* [...frames].sort((a, b) => a - b) of a list that may repeat a frame
SortList(list) ==
  IF list = <<>> THEN <<>>
  ELSE LET i == CHOOSE j \in 1..Len(list) : \A k \in 1..Len(list) : list[j] <= list[k]
       IN <<list[i]>> \o SortList(SubSeq(list, 1, i - 1) \o SubSeq(list, i + 1, Len(list)))

\* the pairs (sortedFrames[i], sortedFrames[i + 1]) in loop order
ConsecutivePairs(sortedFrames) ==
  [i \in 1..(Len(sortedFrames) - 1) |-> <<sortedFrames[i], sortedFrames[i + 1]>>]

RECURSIVE FoldPairs(_, _, _, _)
\* a fold that keeps the result so far when a pair throws and goes on
FoldPairs_SkipsFailedPair(r, easingType, pairs, i) ==
  IF i > Len(pairs) THEN r
  ELSE IF applyEasingToKeyframePair(r.h, r.v, easingType, pairs[i][1], pairs[i][2]).st = "throw"
       THEN FoldPairs(r, easingType, pairs, i + 1)
       ELSE FoldPairs(applyEasingToKeyframePair(r.h, r.v, easingType, pairs[i][1], pairs[i][2]),
                      easingType, pairs, i + 1)

\* eased = applyEasingToKeyframePair(eased, easingType, f1, f2) for each
\* pair from position i on; r is the result so far and a throw leaves the loop
FoldPairs(r, easingType, pairs, i) ==
  IF r.st = "throw" \/ i > Len(pairs) THEN r
  ELSE FoldPairs(applyEasingToKeyframePair(r.h, r.v, easingType, pairs[i][1], pairs[i][2]),
                 easingType, pairs, i + 1)

\* the multi-frame branch: sort, then fold over consecutive pairs
ChainFold(h, parsed, easingType, frames) ==
  FoldPairs(Returned(h, parsed), easingType, ConsecutivePairs(SortList(frames)), 1)

----------------------------------------------------------------------------
(* The fusion:applyEasing handler: what it reads from the host, what it    *)
(* computes between the read and the write, and what it writes.  The       *)
(* spline's keyframes live in the host as { [frame] = {v, LH = {x, y},     *)
(* RH = {x, y}} }: arrays, held in the same heap.                          *)

ErrNoComp == "No Fusion comp on this clip"
ErrGetFailed == "Failed to get keyframes"
ErrParseFailed == "Failed to parse keyframe data"
ErrToolNotFound == "Tool not found"
ErrNotSingle == "cannot be represented as a single bezier curve."
ErrSetFailed == "Failed to set keyframes (Lua bridge returned null)"
ErrSetKeyFrames == "SetKeyFrames failed"

\* the handler returns { error: err } without having thrown
Replied(h, err) == [st |-> "error", err |-> err, h |-> h, v |-> Undef]

\* if data.q then "q": toJSON(data.q), as JSON.parse reads it back
JsonHandle(h, data, entry, q) ==
  IF Truthy(Get(h, data, q))
  THEN PutProp(Append(h, Vec(Get(h, Get(h, data, q), "0"), Get(h, Get(h, data, q), "1"))),
               entry, q, New(h))
  ELSE h

\* one keyframe of the read: {"value": data[1], "LH": [..], "RH": [..]}
JsonOne(h, data, ra, frame) ==
  JsonHandle(
    JsonHandle(NewEntry(h, ra, frame, Get(h, data, "0")), data, New(h), "LH"),
    data, New(h), "RH")

RECURSIVE JsonLoop(_, _, _, _, _)
JsonLoop(h, spline, ra, frames, i) ==
  IF i > Len(frames) THEN Returned(h, Ref(ra))
  ELSE JsonLoop(JsonOne(h, h[spline[2]].m[frames[i]], ra, frames[i]),
                spline, ra, frames, i + 1)

\* keyframeData.keyframes: what getKeyframesLua prints for spline:GetKeyFrames(),
\* parsed by JSON.parse
getKeyframesLua(h, spline) ==
  JsonLoop(Append(h, TableCell(<<>>)), spline, Len(h) + 1, FramesOf(h, spline), 1)

\* the branch on frames, frame1 and frame2, on the result r of fromFusionFormat
EaseByParams(r, easing, p) ==
  IF Len(p.frames) >= 2 THEN ChainFold(r.h, r.v, easing, p.frames)
  ELSE IF p.frame1 # <<>> /\ p.frame2 # <<>>
       THEN applyEasingToKeyframePair(r.h, r.v, easing, p.frame1[1], p.frame2[1])
       ELSE applyEasingToKeyframes(r.h, r.v, easing)

\* const fusionFormat = toFusionFormat(eased), unless the easing threw
ToFusion(e) == IF e.st = "throw" THEN e ELSE toFusionFormat(e.h, e.v)

\* the handler from the parsed read k to fusionFormat, with the checks
\* skipped that the curve is a single bezier
EaseParsed_NoCurveCheck(k, easing, p) ==
  IF Cardinality(DOMAIN k.h[k.v[2]].m) < 2 THEN Replied(k.h, ErrTooFew)
  ELSE ToFusion(EaseByParams(fromFusionFormat(k.h, k.v), easing, p))

\* the handler from the parsed read k to fusionFormat: the two checks, then
\* fromFusionFormat, the easing and toFusionFormat
EaseParsed(k, easing, p) ==
  IF Cardinality(DOMAIN k.h[k.v[2]].m) < 2 THEN Replied(k.h, ErrTooFew)
  ELSE IF ~isSingleBezier(easing) THEN Replied(k.h, ErrNotSingle)
  ELSE ToFusion(EaseByParams(fromFusionFormat(k.h, k.v), easing, p))

\* if (data.q) parts.push(`q = {${data.q[0]}, ${data.q[1]}}`)
LuaHandle(h, data, entry, q) ==
  IF Truthy(Get(h, data, q))
  THEN PutProp(Append(h, Vec(Get(h, Get(h, data, q), "0"), Get(h, Get(h, data, q), "1"))),
               entry, q, New(h))
  ELSE h

\* `[${frame}] = {${parts.join(', ')}}` with value = Array.isArray(data) ? data[0] : 0
LuaOne(h, data, ra, frame) ==
  LuaHandle(
    LuaHandle(NewArrayEntry(h, ra, frame, IF IsArray(h, data) THEN Get(h, data, "0") ELSE NumV(0)),
              data, New(h), "LH"),
    data, New(h), "RH")

RECURSIVE LuaLoop(_, _, _, _, _)
LuaLoop(h, fusionFormat, ra, frames, i) ==
  IF i > Len(frames) THEN Returned(h, Ref(ra))
  ELSE LuaLoop(LuaOne(h, h[fusionFormat[2]].m[frames[i]], ra, frames[i]),
               fusionFormat, ra, frames, i + 1)

\* spline:SetKeyFrames(keyframes, true) with keyframes = keyframesLuaTable:
\* the keyframes the spline holds afterwards
SetKeyFrames(h, fusionFormat) ==
  LuaLoop(Append(h, TableCell(<<>>)), fusionFormat, Len(h) + 1, FramesOf(h, fusionFormat), 1)

RECURSIVE ResetLoop(_, _, _, _, _)
\* the keyframes of the Lua table with their values and without handles
ResetLoop(h, fusionFormat, ra, frames, i) ==
  IF i > Len(frames) THEN Returned(h, Ref(ra))
  ELSE ResetLoop(NewArrayEntry(h, ra, frames[i], Get(h, h[fusionFormat[2]].m[frames[i]], "0")),
                 fusionFormat, ra, frames, i + 1)

\* the first of the two SetKeyFrames calls, as the handler's comment reports
\* it: the keyframes are replaced and the handles are either stored as given
\* or not yet the ones that were set (here: reset)
SetKeyFramesFirst(h, fusionFormat, stored) ==
  IF stored THEN SetKeyFrames(h, fusionFormat)
  ELSE ResetLoop(Append(h, TableCell(<<>>)), fusionFormat, Len(h) + 1,
                 FramesOf(h, fusionFormat), 1)

----------------------------------------------------------------------------
(* What a caller sees when it reads a value: the whole structure behind a  *)
(* reference.                                                              *)

RECURSIVE Snapshot(_, _)
Snapshot(h, v) ==
  IF ~IsRef(v) THEN v
  ELSE IF h[v[2]].k = "table"
       THEN <<"table", [f \in DOMAIN h[v[2]].m |-> Snapshot(h, h[v[2]].m[f])]>>
       ELSE <<"object", h[v[2]].arr,
              [q \in {r \in Props : h[v[2]].p[r] # Undef} |-> Snapshot(h, h[v[2]].p[q])]>>

----------------------------------------------------------------------------
(* Inputs                                                                  *)

\* how many of the frames of FrameAt the model uses
NFrames == 3

FrameAt == <<0, 100, 50, 150, 25>>
\* the first k frames of FrameAt
FirstFrames(k) == {FrameAt[i] : i \in 1..k}
FrameUniverse == FirstFrames(NFrames)
ValueSet == {0, Half, Unit}
CurveNames == {"linear", "easeOutCubic", "easeInOutBack", "easeOutElastic", "toString"}

\* handles a keyframe carries before any easing: odd numbers of model units,
\* which no computed handle takes
PriorLH(f) == <<0 - (2 * f + 1), 1>>
PriorRH(f) == <<2 * f + 1, 0 - 1>>

\* which handles the keyframes of a canonical set carry at the start
Patterns == {"none", "both", "eased", "edges"}
HasPrior(pattern, side, isFirst, isLast) ==
  CASE pattern = "none" -> FALSE
    [] pattern = "both" -> TRUE
    [] pattern = "eased" -> IF side = "LH" THEN ~isFirst ELSE ~isLast
    [] pattern = "edges" -> IF side = "LH" THEN isFirst ELSE isLast

\* a keyframe as the caller holds it: shape of the entry, its value, how many
\* {value: ..} objects wrap the value, and the form of each handle
KfDesc(shape, value, wraps, lh, rh) ==
  [shape |-> shape, value |-> value, wraps |-> wraps, lh |-> lh, rh |-> rh]

\* the reference to the object just allocated
Last(h) == Ref(Len(h))

RECURSIVE BuildValue(_, _, _)
\* v wrapped in `wraps` objects {value: ..}, innermost first
BuildValue(h, v, wraps) ==
  IF wraps = 0 THEN h
  ELSE Append(BuildValue(h, v, wraps - 1),
              KfObj(IF wraps = 1 THEN v ELSE Ref(Len(h) + wraps - 1), Undef, Undef))

BuildHandle(h, form, xy) ==
  CASE form = "array" -> Append(h, Vec(NumV(xy[1]), NumV(xy[2])))
    [] form = "xy" -> Append(h, XY(NumV(xy[1]), NumV(xy[2])))
    [] OTHER -> h

BuildEntry(h, d, f, val, lh, rh) ==
  CASE d.shape = "object" -> PutFrame(Append(h, KfObj(val, lh, rh)), 1, f, New(h))
    [] d.shape = "array" -> PutFrame(Append(h, KfArr(val, lh, rh)), 1, f, New(h))
    [] OTHER -> PutFrame(h, 1, f, val)

BuildWithRH(h, d, f, val, lh) ==
  BuildEntry(h, d, f, val, lh, IF d.rh = "none" THEN Undef ELSE Last(h))

BuildWithLH(h, d, f, val) ==
  BuildWithRH(BuildHandle(h, d.rh, PriorRH(f)), d, f, val,
              IF d.lh = "none" THEN Undef ELSE Last(h))

BuildWithValue(h, d, f) ==
  BuildWithLH(BuildHandle(h, d.lh, PriorLH(f)), d, f,
              IF d.wraps = 0 THEN d.value ELSE Last(h))

BuildKf(h, d, f) == BuildWithValue(BuildValue(h, d.value, d.wraps), d, f)

RECURSIVE BuildTable(_, _, _, _)
\* the heap holding one keyframe table at address 1
BuildTable(h, descs, frames, i) ==
  IF i > Len(frames) THEN h
  ELSE BuildTable(BuildKf(h, descs[frames[i]], frames[i]), descs, frames, i + 1)

BuildHeap(descs) ==
  BuildTable(<<TableCell(<<>>)>>, descs, SortAscending(DOMAIN descs), 1)

Least(S) == CHOOSE x \in S : \A y \in S : x <= y
Greatest(S) == CHOOSE x \in S : \A y \in S : x >= y

\* canonical sets: objects {value, LH?, RH?} with numeric values and array handles
CanonicalDescs(frames, vals, pattern) ==
  [f \in frames |->
     KfDesc("object", NumV(vals[f]), 0,
            IF HasPrior(pattern, "LH", f = Least(frames), f = Greatest(frames))
            THEN "array" ELSE "none",
            IF HasPrior(pattern, "RH", f = Least(frames), f = Greatest(frames))
            THEN "array" ELSE "none")]

CanonicalInputs ==
  UNION {{CanonicalDescs(FirstFrames(k), vals, pattern) :
            vals \in [FirstFrames(k) -> ValueSet], pattern \in Patterns} :
         k \in 0..NFrames}

\* raw keyframes as a host or a caller may hand them to the adapter
RawKfs ==
  {KfDesc("bare", v, 0, "none", "none") : v \in {NumV(0), NumV(Half), StrV("abc"), Null}}
  \cup {KfDesc("object", v, 0, "none", "none") :
          v \in {NumV(0), NumV(Half), StrV("abc"), StrV("5"), Undef}}
  \cup {KfDesc("object", NumV(Half), 0, form, form) : form \in {"array", "xy"}}
  \cup {KfDesc("object", v, w, "none", "none") :
          v \in {NumV(5 * Unit), StrV("abc")}, w \in {1, 2}}
  \cup {KfDesc("array", v, 0, form, form) :
          v \in {NumV(Half), StrV("abc")}, form \in {"none", "array"}}
  \cup {KfDesc("object", NumV(Half), 0, "array", "none"),
        KfDesc("object", NumV(Half), 0, "none", "xy"),
        KfDesc("array", NumV(Half), 0, "none", "array"),
        KfDesc("object", NumV(5 * Unit), 1, "array", "xy")}

\* raw sets have at most the first two frames
RawInputs == UNION {[FirstFrames(k) -> RawKfs] : k \in 0..2}

RECURSIVE Reverse(_)
Reverse(seq) == IF seq = <<>> THEN <<>> ELSE Reverse(Tail(seq)) \o <<Head(seq)>>

\* frame lists a request may carry: any two or more frames, unsorted, and a
\* frame given twice
FrameLists ==
  {Reverse(SortAscending(S)) : S \in {T \in SUBSET FrameUniverse : Cardinality(T) >= 2}}
  \cup {<<f, f>> : f \in FrameUniverse}

\* a frame no keyframe set of the model holds
AbsentFrame == Greatest(FrameUniverse) + 50
RequestFrames == FrameUniverse \cup {AbsentFrame}

\* the spline's keyframes in the host: arrays [v] with array handles
HostDescs(frames, vals, pattern) ==
  [f \in frames |->
     KfDesc("array", NumV(vals[f]), 0,
            IF HasPrior(pattern, "LH", f = Least(frames), f = Greatest(frames))
            THEN "array" ELSE "none",
            IF HasPrior(pattern, "RH", f = Least(frames), f = Greatest(frames))
            THEN "array" ELSE "none")]

HostInputs ==
  UNION {{HostDescs(FirstFrames(k), vals, pattern) :
            vals \in [FirstFrames(k) -> {0, Unit}], pattern \in Patterns} :
         k \in 0..NFrames}

\* { frames, frame1, frame2 } of a request; an absent frame1 or frame2 is <<>>
Params(frames, frame1, frame2) == [frames |-> frames, frame1 |-> frame1, frame2 |-> frame2]
NoParams == Params(<<>>, <<>>, <<>>)

\* requests: a frame list (of any length, unsorted, with a frame given twice,
\* with a frame the set lacks), a pair, one frame alone, or nothing
Requests ==
  {Params(Reverse(SortAscending(S)), <<>>, <<>>) : S \in SUBSET RequestFrames}
  \cup {Params(<<f, f>>, <<>>, <<>>) : f \in RequestFrames}
  \cup {Params(<<>>, <<f1>>, <<f2>>) : f1 \in RequestFrames, f2 \in RequestFrames}
  \cup {Params(<<>>, <<f>>, <<>>) : f \in RequestFrames}

----------------------------------------------------------------------------
(* A caller of the module: it owns one keyframe set, calls the exported    *)
(* functions on it and on what they return, and may read its set again.    *)

VARIABLES
  heap,        \* the objects of the JavaScript heap
  orig,        \* the caller's own keyframe set
  origSnap,    \* what the caller read from it before the first call
  cur,         \* what the last call returned
  easingType,  \* the curve name the caller uses
  last,        \* the last call: function, arguments, outcome
  phase,       \* "start", "once", "twice" or "thrown"
  pc,          \* where the fusion:applyEasing handler stands
  params,      \* frames, frame1 and frame2 of its request
  host,        \* the keyframes the host's spline holds
  keyframeResult, \* what the read of the keyframes gave
  reply,       \* what the handler returned
  trace,       \* the calls it issued and the SetKeyFrames calls the host ran
  undo,        \* the host's undo history: the keyframes each undo step restores
  calc,        \* a direct call of the calculator or of the catalog, with its result
  bridge,      \* the Lua bridge: its lock, its calls, the host's runs and result files
  renderer     \* the renderer's variables and the positions of its async functions

callerVars == <<orig, origSnap, last, phase, calc>>
handlerVars == <<pc, params, host, keyframeResult, reply, trace, undo>>
otherVars == <<bridge, renderer>>
vars == <<heap, orig, origSnap, cur, easingType, last, phase,
          pc, params, host, keyframeResult, reply, trace, undo, calc, bridge, renderer>>

NoCalc == [op |-> "none"]

\* how many calls of the bridge the model starts
NCalls == 3
Calls == 1..NCalls

\* the bridge with no call to make
BridgeOff ==
  [luaBridgeLock |-> FALSE,
   at |-> [c \in Calls |-> "off"],
   polls |-> [c \in Calls |-> 0],
   how |-> [c \in Calls |-> ""],
   lua |-> [c \in Calls |-> "none"],
   file |-> [c \in Calls |-> FALSE]]

\* no renderer window
RendererOff == [at |-> "off"]

NoReply == [t |-> "none", error |-> "", keyframeCount |-> 0]
ErrorReply(err) == [t |-> "error", error |-> err, keyframeCount |-> 0]
SuccessReply(n) == [t |-> "success", error |-> "", keyframeCount |-> n]

NoCall == [op |-> "none", arg |-> Undef, pre |-> Undef, f1 |-> 0, f2 |-> 0,
           frames |-> <<>>, st |-> "", err |-> ""]

\* pre is what the argument held when it was passed
Call(op, arg, pre, f1, f2, frames, r) ==
  [op |-> op, arg |-> arg, pre |-> pre, f1 |-> f1, f2 |-> f2, frames |-> frames,
   st |-> r.st, err |-> r.err]

InitHeap(h, curve) ==
  /\ heap = h
  /\ orig = Ref(1)
  /\ origSnap = Snapshot(h, Ref(1))
  /\ cur = Undef
  /\ easingType = curve
  /\ last = NoCall
  /\ phase = "start"
  /\ pc = "off"
  /\ params = NoParams
  /\ host = Undef
  /\ keyframeResult = "none"
  /\ reply = NoReply
  /\ trace = <<>>
  /\ undo = <<>>
  /\ calc = NoCalc
  /\ bridge = BridgeOff
  /\ renderer = RendererOff

Init == \E descs \in CanonicalInputs, curve \in CurveNames : InitHeap(BuildHeap(descs), curve)

InitRaw ==
  \E descs \in RawInputs, curve \in {"linear", "easeOutElastic"} :
    InitHeap(BuildHeap(descs), curve)

\* the set the next call is made on
Target == IF phase = "once" THEN cur ELSE orig

\* the transformer is called on sets whose keyframe values are numbers
Numeric(h, set) == \A f \in DOMAIN h[set[2]].m : IsNum(KfValue(h, h[set[2]].m[f]))

\* a second call takes no new arguments: it repeats the first one's
CanCall(op, f1, f2, frames) ==
  \/ phase = "start"
  \/ /\ phase = "once"
     /\ \/ op \in {"all", "from", "to"}
        \/ /\ op = last.op /\ f1 = last.f1 /\ f2 = last.f2 /\ frames = last.frames

Finish(op, f1, f2, frames, r) ==
  /\ heap' = r.h
  /\ cur' = r.v
  /\ last' = Call(op, Target, Snapshot(heap, Target), f1, f2, frames, r)
  /\ phase' = IF r.st = "throw" THEN "thrown" ELSE IF phase = "start" THEN "once" ELSE "twice"
  /\ UNCHANGED <<orig, origSnap, easingType, calc>>
  /\ UNCHANGED handlerVars
  /\ UNCHANGED otherVars

CallPair ==
  \E f1 \in FrameUniverse, f2 \in FrameUniverse :
    /\ CanCall("pair", f1, f2, <<>>)
    /\ Numeric(heap, Target)
    /\ Finish("pair", f1, f2, <<>>, applyEasingToKeyframePair(heap, Target, easingType, f1, f2))

CallAll ==
  /\ CanCall("all", 0, 0, <<>>)
  /\ Numeric(heap, Target)
  /\ Finish("all", 0, 0, <<>>, applyEasingToKeyframes(heap, Target, easingType))

CallChain ==
  \E frames \in FrameLists :
    /\ CanCall("chain", 0, 0, frames)
    /\ Numeric(heap, Target)
    /\ Finish("chain", 0, 0, frames, ChainFold(heap, Target, easingType, frames))

CallFrom ==
  /\ CanCall("from", 0, 0, <<>>)
  /\ Finish("from", 0, 0, <<>>, fromFusionFormat(heap, Target))

CallTo ==
  /\ CanCall("to", 0, 0, <<>>)
  /\ Finish("to", 0, 0, <<>>, toFusionFormat(heap, Target))

Next == CallPair \/ CallAll \/ CallChain \/ CallFrom \/ CallTo

Spec == Init /\ [][Next]_vars

SpecRaw == InitRaw /\ [][Next]_vars

----------------------------------------------------------------------------
(* The fusion:applyEasing handler serving one request.  The set at address *)
(* 1 is the spline's keyframes in the host when the request arrives.  Each *)
(* action is the handler's code between two awaits, with the outcome of    *)
(* the awaited call chosen by the host.                                    *)

InitHandler ==
  \E descs \in HostInputs, curve \in CurveNames :
    /\ heap = BuildHeap(descs)
    /\ orig = Ref(1)
    /\ origSnap = Snapshot(BuildHeap(descs), Ref(1))
    /\ cur = Undef
    /\ easingType = curve
    /\ last = NoCall
    /\ phase = "handler"
    /\ pc = "idle"
    /\ params = NoParams
    /\ host = Ref(1)
    /\ keyframeResult = "none"
    /\ reply = NoReply
    /\ trace = <<>>
    /\ undo = <<>>
    /\ calc = NoCalc
    /\ bridge = BridgeOff
    /\ renderer = RendererOff

\* return { error }
ReturnError(err) ==
  /\ pc' = "done"
  /\ reply' = ErrorReply(err)

\* the renderer invokes the handler, which awaits getFusionComp()
Invoke ==
  \E p \in Requests :
    /\ pc = "idle"
    /\ params' = p
    /\ pc' = "getFusionComp"
    /\ trace' = Append(trace, "getFusionComp")
    /\ UNCHANGED <<heap, cur, easingType, host, keyframeResult, reply>>
    /\ UNCHANGED callerVars
    /\ UNCHANGED otherVars
    /\ UNCHANGED undo

\* if (comp.error) return comp
GetFusionCompFails ==
  /\ pc = "getFusionComp"
  /\ ReturnError(ErrNoComp)
  /\ UNCHANGED <<heap, cur, easingType, params, host, keyframeResult, trace>>
  /\ UNCHANGED callerVars
  /\ UNCHANGED otherVars
  /\ UNCHANGED undo

\* comp is there: the handler awaits executeLuaWithBridge(comp, getKeyframesLua)
GetFusionCompReturns ==
  /\ pc = "getFusionComp"
  /\ pc' = "getKeyframes"
  /\ trace' = Append(trace, "getKeyframesLua")
  /\ UNCHANGED <<heap, cur, easingType, params, host, keyframeResult, reply>>
  /\ UNCHANGED callerVars
  /\ UNCHANGED otherVars
  /\ UNCHANGED undo

\* the read returned without keyframes: null from the bridge, text that is
\* not JSON, or the Lua code's {"error": ..}
GetKeyframesFails ==
  \E outcome \in {"null", "garbage", "error"} :
    /\ pc = "getKeyframes"
    /\ keyframeResult' = outcome
    /\ ReturnError(CASE outcome = "null" -> ErrGetFailed
                     [] outcome = "garbage" -> ErrParseFailed
                     [] outcome = "error" -> ErrToolNotFound)
    /\ UNCHANGED <<heap, cur, easingType, params, host, trace>>
    /\ UNCHANGED callerVars
    /\ UNCHANGED otherVars
    /\ UNCHANGED undo

\* the rest of the handler up to its next await, on the result r of the
\* checks, the easing and toFusionFormat
Proceed(r) ==
  /\ heap' = r.h
  /\ cur' = r.v
  /\ keyframeResult' = "keyframes"
  /\ pc' = IF r.st = "ok" THEN "setKeyframes" ELSE "done"
  /\ reply' = IF r.st = "ok" THEN NoReply ELSE ErrorReply(r.err)
  /\ trace' = IF r.st = "ok" THEN Append(trace, "setKeyframesLua") ELSE trace
  /\ UNCHANGED <<easingType, params, host>>
  /\ UNCHANGED callerVars
  /\ UNCHANGED otherVars
  /\ UNCHANGED undo

\* the read returned the keyframes; a throw of the code that follows is
\* caught and returned as { error: e.message }
GetKeyframesReturns ==
  /\ pc = "getKeyframes"
  /\ Proceed(EaseParsed(getKeyframesLua(heap, host), easingType, params))

\* await executeLuaWithBridge(comp, testLua), issued when setResult is null
AwaitTestLua ==
  /\ pc' = "testLua"
  /\ reply' = reply

\* the set did not run: the bridge gave up waiting for its lock
SetKeyframesNotRun ==
  /\ pc = "setKeyframes"
  /\ AwaitTestLua
  /\ trace' = Append(trace, "testLua")
  /\ UNCHANGED <<heap, cur, easingType, params, host, keyframeResult>>
  /\ UNCHANGED callerVars
  /\ UNCHANGED otherVars
  /\ UNCHANGED undo

\* the set ran and returned {"error": ..} before reaching SetKeyFrames
SetKeyframesLuaError ==
  /\ pc = "setKeyframes"
  /\ ReturnError(ErrToolNotFound)
  /\ UNCHANGED <<heap, cur, easingType, params, host, keyframeResult, trace>>
  /\ UNCHANGED callerVars
  /\ UNCHANGED otherVars
  /\ UNCHANGED undo

\* the host replaces the spline's keyframes by the table r and records the
\* step in its undo history
Replace(r) ==
  /\ heap' = r.h
  /\ host' = r.v
  /\ undo' = Append(undo, host)

\* the second SetKeyFrames after the first one gave r1: two undo steps
ReplaceAgain(r1) ==
  /\ heap' = SetKeyFrames(r1.h, cur).h
  /\ host' = SetKeyFrames(r1.h, cur).v
  /\ undo' = undo \o <<host, r1.v>>

\* a SetKeyFrames raised an error inside pcall, before or after the first
\* call replaced the keyframes
SetKeyframesThrows ==
  \E replaced \in BOOLEAN, stored \in BOOLEAN :
    /\ pc = "setKeyframes"
    /\ IF replaced THEN Replace(SetKeyFramesFirst(heap, cur, stored))
                   ELSE UNCHANGED <<heap, host, undo>>
    /\ trace' = Append(trace, "SetKeyFrames")
    /\ ReturnError(ErrSetKeyFrames)
    /\ UNCHANGED <<cur, easingType, params, keyframeResult>>
    /\ UNCHANGED callerVars
    /\ UNCHANGED otherVars

\* both SetKeyFrames calls ran; the result file was read (seen) or was not
\* there after the wait, which gives null
SetKeyframesRuns ==
  \E seen \in BOOLEAN, stored \in BOOLEAN :
    /\ pc = "setKeyframes"
    /\ ReplaceAgain(SetKeyFramesFirst(heap, cur, stored))
    /\ IF seen
       THEN /\ pc' = "done"
            /\ reply' = SuccessReply(Cardinality(DOMAIN heap[cur[2]].m))
            /\ trace' = trace \o <<"SetKeyFrames", "SetKeyFrames">>
       ELSE /\ AwaitTestLua
            /\ trace' = trace \o <<"SetKeyFrames", "SetKeyFrames", "testLua">>
    /\ UNCHANGED <<cur, easingType, params, keyframeResult>>
    /\ UNCHANGED callerVars
    /\ UNCHANGED otherVars

\* whatever testLua gives, the handler returns the error
TestLuaReturns ==
  /\ pc = "testLua"
  /\ ReturnError(ErrSetFailed)
  /\ UNCHANGED <<heap, cur, easingType, params, host, keyframeResult, trace>>
  /\ UNCHANGED callerVars
  /\ UNCHANGED otherVars
  /\ UNCHANGED undo

NextHandler ==
  \/ Invoke
  \/ GetFusionCompFails
  \/ GetFusionCompReturns
  \/ GetKeyframesFails
  \/ GetKeyframesReturns
  \/ SetKeyframesNotRun
  \/ SetKeyframesLuaError
  \/ SetKeyframesThrows
  \/ SetKeyframesRuns
  \/ TestLuaReturns

SpecHandler == InitHandler /\ [][NextHandler]_vars

\* the module with both of its users: a direct caller, or the handler
SpecAll == (Init \/ InitHandler) /\ [][Next \/ NextHandler]_vars

----------------------------------------------------------------------------
(* Direct calls of the Handle Calculator and of the catalog's functions    *)

ElasticBounceNames ==
  {"easeInElastic", "easeOutElastic", "easeInOutElastic",
   "easeInBounce", "easeOutBounce", "easeInOutBounce"}

\* names a caller may pass: the catalog's, elastic and bounce, names every
\* object inherits, and the empty string
CalcNames == DOMAIN BEZIER_PRESETS \cup ElasticBounceNames \cup InheritedNames \cup {""}

\* the names in the arrays of getSupportedEasingGroups()
GroupedNames ==
  UNION {{getSupportedEasingGroups[g][i] : i \in 1..Len(getSupportedEasingGroups[g])} :
           g \in DOMAIN getSupportedEasingGroups}

InitCalc ==
  /\ heap = <<>>
  /\ orig = Undef
  /\ origSnap = Undef
  /\ cur = Undef
  /\ easingType = ""
  /\ last = NoCall
  /\ phase = "calc"
  /\ pc = "off"
  /\ params = NoParams
  /\ host = Undef
  /\ keyframeResult = "none"
  /\ reply = NoReply
  /\ trace = <<>>
  /\ undo = <<>>
  /\ calc = NoCalc
  /\ bridge = BridgeOff
  /\ renderer = RendererOff

\* calculateHandles(name, frame1, value1, frame2, value2), for any order of
\* the two frames
Calculate ==
  \E name \in CalcNames, frame1 \in FrameUniverse, frame2 \in FrameUniverse,
     value1 \in ValueSet, value2 \in ValueSet :
    /\ calc.op = "none"
    /\ calc' = [op |-> "calculate", name |-> name,
                frame1 |-> frame1, value1 |-> value1, frame2 |-> frame2, value2 |-> value2,
                handles |-> calculateHandles(name, frame1, value1, frame2, value2)]
    /\ UNCHANGED <<heap, orig, origSnap, cur, easingType, last, phase>>
    /\ UNCHANGED handlerVars
    /\ UNCHANGED otherVars

\* the four views of the catalog on one name
Query ==
  \E name \in CalcNames :
    /\ calc.op = "none"
    /\ calc' = [op |-> "query", name |-> name,
                single |-> isSingleBezier(name),
                points |-> getBezierPoints(name),
                listed |-> name \in listSupportedEasings,
                grouped |-> name \in GroupedNames]
    /\ UNCHANGED <<heap, orig, origSnap, cur, easingType, last, phase>>
    /\ UNCHANGED handlerVars
    /\ UNCHANGED otherVars

\* listSupportedEasings()
List ==
  /\ calc.op = "none"
  /\ calc' = [op |-> "list", names |-> listSupportedEasings]
  /\ UNCHANGED <<heap, orig, origSnap, cur, easingType, last, phase>>
  /\ UNCHANGED handlerVars
  /\ UNCHANGED otherVars

NextCalc == Calculate \/ Query \/ List

SpecCalc == InitCalc /\ [][NextCalc]_vars

----------------------------------------------------------------------------
(* The Lua bridge: executeLuaWithBridge (executeLua in the other copies),  *)
(* called NCalls times at once.  JavaScript runs each call from one await  *)
(* to the next without interruption, so each action is the code between    *)
(* two awaits.  The host runs the Lua code of a call on its own and writes *)
(* the result file when it is through, before or after the call's wait.    *)

\* how many sleeps of 50 ms LOCK_TIMEOUT allows; the count is startWait's
\* role and is dropped when the loop is left
MaxPolls == 1

\* no module but the bridge is in use
Quiet ==
  /\ heap = <<>>
  /\ orig = Undef
  /\ origSnap = Undef
  /\ cur = Undef
  /\ easingType = ""
  /\ last = NoCall
  /\ phase = "off"
  /\ pc = "off"
  /\ params = NoParams
  /\ host = Undef
  /\ keyframeResult = "none"
  /\ reply = NoReply
  /\ trace = <<>>
  /\ undo = <<>>
  /\ calc = NoCalc

InitBridge ==
  /\ Quiet
  /\ bridge = [BridgeOff EXCEPT !.at = [c \in Calls |-> "idle"]]
  /\ renderer = RendererOff

\* return null from the wait loop
GiveUp(b, c) == [b EXCEPT !.at[c] = "returned", !.how[c] = "timeout", !.polls[c] = 0]

\* await new Promise(r => setTimeout(r, 50))
Sleep(b, c) == [b EXCEPT !.at[c] = "sleep", !.polls[c] = b.polls[c] + 1]

\* luaBridgeLock = true; ...; await comp.Execute(wrappedLua): the host has
\* the code (started) or the call failed before it got there
Acquire(b, c, started) ==
  [b EXCEPT !.luaBridgeLock = TRUE, !.at[c] = "execute", !.polls[c] = 0,
            !.lua[c] = IF started THEN "running" ELSE "none"]

\* a loop whose timeout path releases the lock, as if inside the try
WhileLocked_TimeoutReleases(b, c, timedOut, started) ==
  IF b.luaBridgeLock
  THEN IF timedOut THEN [GiveUp(b, c) EXCEPT !.luaBridgeLock = FALSE] ELSE Sleep(b, c)
  ELSE Acquire(b, c, started)

\* while (luaBridgeLock) { if (timed out) return null; await sleep } and,
\* when the loop ends, what follows it up to the next await
WhileLocked(b, c, timedOut, started) ==
  IF b.luaBridgeLock
  THEN IF timedOut THEN GiveUp(b, c) ELSE Sleep(b, c)
  ELSE Acquire(b, c, started)

\* if (fs.existsSync(bridgeFile)) { read; unlink; return content } return null
\* and catch (e) { return null } when the read throws
ReadResult(b, c, readThrows) ==
  IF ~b.file[c] THEN [b EXCEPT !.at[c] = "returned", !.how[c] = "missing"]
  ELSE IF readThrows THEN [b EXCEPT !.at[c] = "returned", !.how[c] = "readError"]
  ELSE [b EXCEPT !.at[c] = "returned", !.how[c] = "content", !.file[c] = FALSE]

\* a finally that runs only when the result was read
Finally_OnlyOnContent(b, c) ==
  IF b.how[c] = "content" THEN [b EXCEPT !.luaBridgeLock = FALSE, !.file[c] = FALSE] ELSE b

\* finally { luaBridgeLock = false; if (exists) unlink }
Finally(b, c) == [b EXCEPT !.luaBridgeLock = FALSE, !.file[c] = FALSE]

\* the call starts and runs to its first await; no time has passed
Start(c) ==
  \E started \in BOOLEAN :
    /\ bridge.at[c] = "idle"
    /\ bridge' = WhileLocked(bridge, c, FALSE, started)
    /\ UNCHANGED <<heap, cur, easingType, renderer>>
    /\ UNCHANGED callerVars
    /\ UNCHANGED handlerVars

\* the 50 ms are over: the loop tests the lock and the time again
Wake(c) ==
  \E started \in BOOLEAN :
    /\ bridge.at[c] = "sleep"
    /\ bridge' = WhileLocked(bridge, c, bridge.polls[c] >= MaxPolls, started)
    /\ UNCHANGED <<heap, cur, easingType, renderer>>
    /\ UNCHANGED callerVars
    /\ UNCHANGED handlerVars

\* comp.Execute resolved or threw (the throw is caught and ignored); next is
\* the wait of 150 ms
ExecuteSettles(c) ==
  /\ bridge.at[c] = "execute"
  /\ bridge' = [bridge EXCEPT !.at[c] = "wait"]
  /\ UNCHANGED <<heap, cur, easingType, renderer>>
  /\ UNCHANGED callerVars
  /\ UNCHANGED handlerVars

\* the 150 ms are over: read the result, clean up, return
ResultWaitElapses(c) ==
  \E readThrows \in BOOLEAN :
    /\ bridge.at[c] = "wait"
    /\ bridge' = Finally(ReadResult(bridge, c, readThrows), c)
    /\ UNCHANGED <<heap, cur, easingType, renderer>>
    /\ UNCHANGED callerVars
    /\ UNCHANGED handlerVars

\* the host is through with the Lua code of call c; the code's last step
\* writes the result file, unless io.open fails or the code raised
HostFinishes(c) ==
  \E written \in BOOLEAN :
    /\ bridge.lua[c] = "running"
    /\ bridge' = [bridge EXCEPT !.lua[c] = "done", !.file[c] = written]
    /\ UNCHANGED <<heap, cur, easingType, renderer>>
    /\ UNCHANGED callerVars
    /\ UNCHANGED handlerVars

NextBridge ==
  \E c \in Calls :
    Start(c) \/ Wake(c) \/ ExecuteSettles(c) \/ ResultWaitElapses(c) \/ HostFinishes(c)

SpecBridge == InitBridge /\ [][NextBridge]_vars

\* timers fire: a sleeping call wakes up and a waiting call reads its result
SpecBridgeFair ==
  /\ SpecBridge
  /\ \A c \in Calls : WF_vars(Wake(c)) /\ WF_vars(ResultWaitElapses(c))

----------------------------------------------------------------------------
(* The renderer: its module variables, the async functions refresh,        *)
(* onToolSelect, onInputChange and onApply, each cut at its awaits, and    *)
(* the click handlers.  A tool or an input that is null is "".  What the   *)
(* main process answers to a request is the host's choice.                 *)

\* how many keyframes the spline shown in the timeline may have
NMarks == 3
Marks == {50 * (i - 1) : i \in 1..NMarks}
Tools == {"A", "B"}

\* result.error of getKeyframes
KeyframesError == <<0 - 1>>
\* result.keyframes: the spline has its first n keyframes, or has lost its
\* first one
KeyframeResults ==
  {[i \in 1..n |-> 50 * (i - 1)] : n \in 0..NMarks}
    \cup {[i \in 1..(NMarks - 1) |-> 50 * i]} \cup {KeyframesError}
\* result.animatedInputs.length, or result.error
InputsError == 0 - 1
InputResults == {InputsError, 0, 1, 2}

RendererStart(connected) ==
  [at |-> "on", connected |-> connected,
   selectedTools |-> {}, selectedTool |-> "", animatedInputs |-> 0,
   selectedInput |-> "", inputValue |-> "",
   isSelectingTool |-> FALSE, isRefreshing |-> FALSE,
   keyframes |-> <<>>, selectedFrames |-> <<>>,
   inputShown |-> FALSE, shown |-> FALSE,
   sel |-> [at |-> "idle", by |-> ""],
   ref |-> [at |-> "idle", previousToolName |-> "", previousInputName |-> ""],
   inp |-> "idle", apply |-> "idle", sent |-> <<>>]

InitRenderer ==
  \E connected \in BOOLEAN :
    /\ Quiet
    /\ bridge = BridgeOff
    /\ renderer = RendererStart(connected)

RECURSIVE Keep(_, _)
\* seq.filter(f => allowed has f)
Keep(seq, allowed) ==
  IF seq = <<>> THEN <<>>
  ELSE IF Includes(allowed, Head(seq)) THEN <<Head(seq)>> \o Keep(Tail(seq), allowed)
  ELSE Keep(Tail(seq), allowed)

\* the set of the elements of a list
Elements(seq) == {seq[i] : i \in 1..Len(seq)}

\* onInputChange up to its await: how it leaves the function, "done" by a
\* return, "thrown" by reading selectedTool.name of null, or "await"
InputChangeOutcome(r) ==
  IF r.inputValue = "" \/ ~r.connected THEN "done"
  ELSE IF r.selectedTool = "" THEN "thrown"
  ELSE "await"

\* onInputChange up to its await: the variables it leaves
InputChangeStart(r) ==
  IF r.inputValue = ""
  THEN [r EXCEPT !.selectedInput = "", !.keyframes = <<>>, !.shown = FALSE]
  ELSE [r EXCEPT !.selectedInput = r.inputValue, !.selectedFrames = <<>>]

\* onInputChange after getKeyframes returned result
InputChangeEnd(r, result) ==
  IF result = KeyframesError THEN [r EXCEPT !.shown = FALSE]
  ELSE IF Len(result) < 2 THEN [r EXCEPT !.keyframes = result, !.shown = FALSE]
  ELSE [r EXCEPT !.keyframes = result, !.selectedFrames = result, !.shown = TRUE]

\* refresh's finally { isRefreshing = false }; doRefresh's locals are gone
EndRefresh(r) ==
  [r EXCEPT !.isRefreshing = FALSE,
            !.ref = [at |-> "idle", previousToolName |-> "", previousInputName |-> ""]]

\* onToolSelect is over, with isSelectingTool left at guard; the refresh
\* that awaited it is over too
EndSelect(r, guard) ==
  IF r.sel.by = "refresh"
  THEN EndRefresh([r EXCEPT !.isSelectingTool = guard, !.sel = [at |-> "idle", by |-> ""]])
  ELSE [r EXCEPT !.isSelectingTool = guard, !.sel = [at |-> "idle", by |-> ""]]

\* onToolSelect(tool) from its guard to its first await
SelectStart(r, tool, by) ==
  IF r.isSelectingTool THEN r
  ELSE IF ~r.connected
  THEN [r EXCEPT !.selectedTool = tool, !.selectedInput = "", !.keyframes = <<>>,
                 !.selectedFrames = <<>>, !.inputShown = FALSE, !.shown = FALSE]
  ELSE [r EXCEPT !.isSelectingTool = TRUE, !.selectedTool = tool, !.selectedInput = "",
                 !.keyframes = <<>>, !.selectedFrames = <<>>,
                 !.inputShown = FALSE, !.shown = FALSE,
                 !.sel = [at |-> "getAnimatedInputs", by |-> by]]

\* onToolSelect with one animated input: inputSelectEl.value = it;
\* await onInputChange().  A throw of onInputChange leaves onToolSelect at
\* once, past the assignment isSelectingTool = false.
SelectSingleInput(r) ==
  IF InputChangeOutcome(r) = "thrown" THEN EndSelect(InputChangeStart(r), r.isSelectingTool)
  ELSE IF InputChangeOutcome(r) = "done" THEN EndSelect(InputChangeStart(r), FALSE)
  ELSE [InputChangeStart(r) EXCEPT !.sel.at = "getKeyframes"]

\* onToolSelect after getAnimatedInputs returned n inputs or an error
SelectGotInputs(r, n) ==
  IF n = InputsError \/ n = 0
  THEN EndSelect([r EXCEPT !.animatedInputs = IF n = 0 THEN 0 ELSE r.animatedInputs,
                           !.inputShown = FALSE, !.shown = FALSE], FALSE)
  ELSE IF n = 1
  THEN SelectSingleInput([r EXCEPT !.animatedInputs = n, !.inputValue = "in",
                                   !.inputShown = TRUE, !.shown = FALSE])
  ELSE EndSelect([r EXCEPT !.animatedInputs = n, !.inputValue = "",
                           !.inputShown = TRUE, !.shown = FALSE], FALSE)

\* doRefresh: clear any stale state of the previous tool
ClearStale(r) ==
  IF r.ref.previousToolName = "" THEN r
  ELSE [r EXCEPT !.animatedInputs = 0, !.selectedInput = "", !.keyframes = <<>>,
                 !.selectedFrames = <<>>]

\* doRefresh: the previous tool is no longer selected; clear everything
ClearAll(r) ==
  [r EXCEPT !.selectedTool = "", !.animatedInputs = 0, !.selectedInput = "",
            !.keyframes = <<>>, !.selectedFrames = <<>>,
            !.inputShown = FALSE, !.shown = FALSE]

\* await onToolSelect(selectedTools[0]) in doRefresh; the guard is free here
AutoSelect(r) ==
  IF r.connected
  THEN [SelectStart(ClearStale(r), CHOOSE t \in r.selectedTools : TRUE, "refresh")
          EXCEPT !.ref.at = "select"]
  ELSE EndRefresh(SelectStart(ClearStale(r), CHOOSE t \in r.selectedTools : TRUE, "refresh"))

\* doRefresh from the auto-select decision on, selectedTools being set
Decide(r) ==
  IF /\ Cardinality(r.selectedTools) = 1
     /\ (r.ref.previousToolName = "" \/ r.ref.previousToolName \notin r.selectedTools)
     /\ ~r.isSelectingTool
  THEN AutoSelect(r)
  ELSE IF r.ref.previousToolName = "" THEN EndRefresh(r)
  ELSE IF r.ref.previousToolName \notin r.selectedTools THEN EndRefresh(ClearAll(r))
  ELSE IF r.ref.previousInputName # "" /\ r.connected
  THEN [r EXCEPT !.selectedTool = r.ref.previousToolName, !.ref.at = "refreshKeyframes"]
  ELSE EndRefresh([r EXCEPT !.selectedTool = r.ref.previousToolName])

\* refresh() up to its first await; without the bridge the tool list is
\* empty and doRefresh runs to its end
RefreshStart(r) ==
  IF r.isRefreshing THEN r
  ELSE IF r.connected
  THEN [r EXCEPT !.isRefreshing = TRUE,
                 !.ref = [at |-> "getCompInfo", previousToolName |-> r.selectedTool,
                          previousInputName |-> r.selectedInput]]
  ELSE Decide([r EXCEPT !.isRefreshing = TRUE, !.selectedTools = {},
                        !.ref = [at |-> "demo", previousToolName |-> r.selectedTool,
                                 previousInputName |-> r.selectedInput]])

\* refreshKeyframesOnly after getKeyframes returned result
RefreshedKeyframes(r, result) ==
  IF result = KeyframesError \/ result = r.keyframes THEN r
  ELSE [r EXCEPT !.keyframes = result,
                 !.selectedFrames = IF Keep(r.selectedFrames, result) = <<>> THEN result
                                    ELSE Keep(r.selectedFrames, result),
                 !.shown = Len(result) >= 2]

\* the frames of the timeline from lastSelected to the clicked frame
RangeFrames(r, frame) ==
  {f \in Elements(r.keyframes) :
     /\ f >= (IF r.selectedFrames[Len(r.selectedFrames)] < frame
              THEN r.selectedFrames[Len(r.selectedFrames)] ELSE frame)
     /\ f <= (IF r.selectedFrames[Len(r.selectedFrames)] < frame
              THEN frame ELSE r.selectedFrames[Len(r.selectedFrames)])}

\* a plain click that deselects down to one frame
PlainClick_FloorOfOne(r, frame) ==
  IF Includes(r.selectedFrames, frame)
  THEN IF Len(r.selectedFrames) >= 2
       THEN [r EXCEPT !.selectedFrames = Keep(r.selectedFrames, SortAscending(Elements(r.selectedFrames) \ {frame}))]
       ELSE r
  ELSE [r EXCEPT !.selectedFrames = SortAscending(Elements(r.selectedFrames) \cup {frame})]

\* onKeyframeClick without shift: toggle, but keep at least 2 selected
PlainClick(r, frame) ==
  IF Includes(r.selectedFrames, frame)
  THEN IF Len(r.selectedFrames) > 2
       THEN [r EXCEPT !.selectedFrames = Keep(r.selectedFrames, SortAscending(Elements(r.selectedFrames) \ {frame}))]
       ELSE r
  ELSE [r EXCEPT !.selectedFrames = SortAscending(Elements(r.selectedFrames) \cup {frame})]

\* onKeyframeClick with shift and a selection: add the range, when both of
\* its ends are keyframes of the timeline
ShiftClick(r, frame) ==
  IF Includes(r.keyframes, r.selectedFrames[Len(r.selectedFrames)]) /\ Includes(r.keyframes, frame)
  THEN [r EXCEPT !.selectedFrames = SortAscending(Elements(r.selectedFrames) \cup RangeFrames(r, frame))]
  ELSE r

\* onKeyframeClick(frame, event)
onKeyframeClick(r, frame, shiftKey) ==
  IF shiftKey /\ Len(r.selectedFrames) > 0 THEN ShiftClick(r, frame) ELSE PlainClick(r, frame)

\* onApply up to its await: the request goes out with selectedFrames; sent
\* is the frames of the request in flight
ApplyStart(r) ==
  IF r.selectedTool = "" \/ r.selectedInput = "" THEN r
  ELSE IF Len(r.selectedFrames) < 2 THEN r
  ELSE IF ~r.connected THEN r
  ELSE [r EXCEPT !.apply = "applyEasing", !.sent = r.selectedFrames]

\* onApply after applyEasing returned: on success, await onInputChange(),
\* whose throw the catch takes
ApplyReturned(r, ok) ==
  IF ~ok THEN [r EXCEPT !.apply = "idle", !.sent = <<>>]
  ELSE IF InputChangeOutcome(r) = "await"
  THEN [InputChangeStart(r) EXCEPT !.apply = "getKeyframes", !.sent = <<>>]
  ELSE [InputChangeStart(r) EXCEPT !.apply = "idle", !.sent = <<>>]

\* the change event of the input dropdown: onInputChange up to its await
InputChosen(r) ==
  IF InputChangeOutcome(r) = "await" THEN [InputChangeStart(r) EXCEPT !.inp = "getKeyframes"]
  ELSE InputChangeStart(r)

Rest == UNCHANGED <<heap, cur, easingType, bridge>> /\ UNCHANGED callerVars /\ UNCHANGED handlerVars

\* setInterval(refresh, interval), the refresh button, focus
Refresh ==
  /\ renderer.at = "on"
  /\ renderer' = RefreshStart(renderer)
  /\ Rest

RefreshGetsCompInfo ==
  \E ok \in BOOLEAN :
    /\ renderer.ref.at = "getCompInfo"
    /\ renderer' = IF ok THEN [renderer EXCEPT !.ref.at = "getSelectedTools"]
                   ELSE EndRefresh(renderer)
    /\ Rest

RefreshGetsTools ==
  \E ok \in BOOLEAN, tools \in SUBSET Tools :
    /\ renderer.ref.at = "getSelectedTools"
    /\ renderer' = IF ok THEN Decide([renderer EXCEPT !.selectedTools = tools])
                   ELSE EndRefresh(renderer)
    /\ Rest

RefreshGetsKeyframes ==
  \E result \in KeyframeResults :
    /\ renderer.ref.at = "refreshKeyframes"
    /\ renderer' = EndRefresh(RefreshedKeyframes(renderer, result))
    /\ Rest

\* a click on a tool of the list
ToolClick ==
  \E tool \in renderer.selectedTools :
    /\ renderer.at = "on"
    /\ renderer' = SelectStart(renderer, tool, "click")
    /\ Rest

SelectGetsInputs ==
  \E n \in InputResults :
    /\ renderer.sel.at = "getAnimatedInputs"
    /\ renderer' = SelectGotInputs(renderer, n)
    /\ Rest

SelectGetsKeyframes ==
  \E result \in KeyframeResults :
    /\ renderer.sel.at = "getKeyframes"
    /\ renderer' = EndSelect(InputChangeEnd(renderer, result), FALSE)
    /\ Rest

\* the user picks an entry of the input dropdown
InputChange ==
  \E value \in {"", "in"} :
    /\ renderer.at = "on"
    /\ renderer.inputShown
    /\ renderer.inp = "idle"
    /\ renderer' = InputChosen([renderer EXCEPT !.inputValue = value])
    /\ Rest

InputGetsKeyframes ==
  \E result \in KeyframeResults :
    /\ renderer.inp = "getKeyframes"
    /\ renderer' = [InputChangeEnd(renderer, result) EXCEPT !.inp = "idle"]
    /\ Rest

\* a click on a marker of the timeline
KeyframeClick ==
  \E frame \in Marks, shiftKey \in BOOLEAN :
    /\ renderer.at = "on"
    /\ renderer.shown
    /\ Includes(renderer.keyframes, frame)
    /\ renderer' = onKeyframeClick(renderer, frame, shiftKey)
    /\ Rest

\* a click on the apply button, which is disabled while an apply runs
Apply ==
  /\ renderer.at = "on"
  /\ renderer.apply = "idle"
  /\ renderer' = ApplyStart(renderer)
  /\ Rest

ApplyReturns ==
  \E ok \in BOOLEAN :
    /\ renderer.apply = "applyEasing"
    /\ renderer' = ApplyReturned(renderer, ok)
    /\ Rest

ApplyGetsKeyframes ==
  \E result \in KeyframeResults :
    /\ renderer.apply = "getKeyframes"
    /\ renderer' = [InputChangeEnd(renderer, result) EXCEPT !.apply = "idle"]
    /\ Rest

NextRenderer ==
  \/ Refresh \/ RefreshGetsCompInfo \/ RefreshGetsTools \/ RefreshGetsKeyframes
  \/ ToolClick \/ SelectGetsInputs \/ SelectGetsKeyframes
  \/ InputChange \/ InputGetsKeyframes
  \/ KeyframeClick \/ Apply \/ ApplyReturns \/ ApplyGetsKeyframes

SpecRenderer == InitRenderer /\ [][NextRenderer]_vars

----------------------------------------------------------------------------
(* Reading snapshots                                                       *)

\* the frames of a snapshot of a keyframe table
SnapFrames(snap) == DOMAIN snap[2]
\* the keyframe a table snapshot holds at frame f
SnapKf(snap, f) == snap[2][f]
\* property q of an object snapshot, undefined when absent
SnapProp(obj, q) == IF q \in DOMAIN obj[3] THEN obj[3][q] ELSE Undef
\* the snapshot of the array [x, y] of two numbers in model units
SnapVec(x, y) == <<"object", TRUE, [q \in {"0", "1"} |-> IF q = "0" THEN NumV(x) ELSE NumV(y)]>>
\* the value, in model units, a table snapshot holds at frame f, in the
\* { value: v } or the [v] shape
SnapValue(snap, f) ==
  IF SnapProp(SnapKf(snap, f), "value") # Undef
  THEN SnapProp(SnapKf(snap, f), "value")[2]
  ELSE SnapProp(SnapKf(snap, f), "0")[2]
\* the handles calculateHandles gives for the segment f1..f2 of a snapshot
SnapHandles(curve, snap, f1, f2) ==
  calculateHandles(curve, f1, SnapValue(snap, f1), f2, SnapValue(snap, f2))

\* the last call was this function, on a representable curve, and returned
Did(op) == last.op = op /\ last.st = "ok" /\ isSingleBezier(easingType)

----------------------------------------------------------------------------
(* C1: applyEasingToKeyframePair on a representable curve and two existing *)
(* frames f1 < f2 returns a set with the frames of its argument, in which  *)
(* every keyframe at another frame is the argument's (value, LH, RH and    *)
(* their presence), the keyframe at f1 keeps the LH it had or had not, and *)
(* the keyframe at f2 keeps its RH.                                        *)
C1_NonInterference ==
  Did("pair") =>
    /\ SnapFrames(Snapshot(heap, cur)) = SnapFrames(last.pre)
    /\ \A f \in SnapFrames(last.pre) \ {last.f1, last.f2} :
         SnapKf(Snapshot(heap, cur), f) = SnapKf(last.pre, f)
    /\ SnapProp(SnapKf(Snapshot(heap, cur), last.f1), "LH")
         = SnapProp(SnapKf(last.pre, last.f1), "LH")
    /\ SnapProp(SnapKf(Snapshot(heap, cur), last.f2), "RH")
         = SnapProp(SnapKf(last.pre, last.f2), "RH")

\* a pair call on a set of three keyframes that all carry both handles
C1_Witness ==
  /\ Did("pair")
  /\ Cardinality(SnapFrames(last.pre)) = 3
  /\ \A f \in SnapFrames(last.pre) :
       /\ SnapProp(SnapKf(last.pre, f), "LH") # Undef
       /\ SnapProp(SnapKf(last.pre, f), "RH") # Undef

----------------------------------------------------------------------------
(* C2: no call changes the set it is given: the caller's own set reads the *)
(* same after every sequence of calls as before the first, and the         *)
(* argument of the last call reads as it did when it was passed.           *)
C2_InputUnchanged ==
  /\ Snapshot(heap, orig) = origSnap
  /\ last.op # "none" => Snapshot(heap, last.arg) = last.pre

\* a chain fold over two pairs, run on the result of the same fold, that
\* returned a set unlike the caller's
C2_Witness ==
  /\ phase = "twice"
  /\ Did("chain")
  /\ Len(last.frames) = 3
  /\ Snapshot(heap, cur) # origSnap

----------------------------------------------------------------------------
(* C4: applyEasingToKeyframePair, the chain fold and                       *)
(* applyEasingToKeyframes, called with a curve name that has no catalog    *)
(* entry, fail and return no set.                                          *)
C4_UnsupportedCurveFails ==
  (last.op \in {"pair", "chain", "all"} /\ ~isSingleBezier(easingType)) =>
    (last.st = "throw" /\ cur = Undef)

----------------------------------------------------------------------------
(* C7: a chain over existing frames on a representable curve gives, for    *)
(* every consecutive pair (f, g) of the sorted frames, RH at f and LH at g *)
(* equal to the handles calculateHandles gives for that pair on the        *)
(* argument's values, and folding the pairs in any order gives the same    *)
(* set as the fold in loop order.                                          *)

\* what a caller reads from the result r of a call
ResultSnap(r) == Snapshot(r.h, r.v)

\* the pairs of the last chain call, in loop order
LastPairs == ConsecutivePairs(SortList(last.frames))

C7_ChainComposable ==
  Did("chain") =>
    /\ \A i \in 1..Len(LastPairs) :
         /\ SnapProp(SnapKf(Snapshot(heap, cur), LastPairs[i][1]), "RH")
              = SnapVec(SnapHandles(easingType, last.pre, LastPairs[i][1], LastPairs[i][2]).rh1.x,
                        SnapHandles(easingType, last.pre, LastPairs[i][1], LastPairs[i][2]).rh1.y)
         /\ SnapProp(SnapKf(Snapshot(heap, cur), LastPairs[i][2]), "LH")
              = SnapVec(SnapHandles(easingType, last.pre, LastPairs[i][1], LastPairs[i][2]).lh2.x,
                        SnapHandles(easingType, last.pre, LastPairs[i][1], LastPairs[i][2]).lh2.y)
    /\ \A order \in Permutations(1..Len(LastPairs)) :
         ResultSnap(FoldPairs(Returned(heap, last.arg), easingType,
                              [i \in 1..Len(LastPairs) |-> LastPairs[order[i]]], 1))
           = Snapshot(heap, cur)

\* a chain over three frames, so two pairs sharing the middle keyframe, on a
\* set whose keyframes carried handles and whose values differ
C7_Witness ==
  /\ phase = "once"
  /\ Did("chain")
  /\ Len(last.frames) = 3
  /\ \A f \in SnapFrames(last.pre) : SnapProp(SnapKf(last.pre, f), "RH") # Undef
  /\ Cardinality({SnapValue(last.pre, f) : f \in SnapFrames(last.pre)}) = 3

----------------------------------------------------------------------------
(* C8: applyEasingToKeyframes on a representable curve returns the set the *)
(* chain fold over all sorted frames of its argument returns.              *)
C8_AllEqualsChain ==
  Did("all") =>
    Snapshot(heap, cur)
      = ResultSnap(ChainFold(heap, last.arg, easingType, FramesOf(heap, last.arg)))

----------------------------------------------------------------------------
(* C9: applyEasingToKeyframes on a representable curve gives every         *)
(* keyframe but the last an RH equal to the outgoing handle of the pair it *)
(* starts and every keyframe but the first an LH equal to the incoming     *)
(* handle of the pair it ends; linear on {0: 0, 50: 0.5, 100: 1} gives     *)
(* frame 50 LH = (-50/3, -0.5/3) and RH = (50/3, 0.5/3).                   *)

\* the consecutive pairs of all frames of the last call's argument
AllPairsOfLast == ConsecutivePairs(SortAscending(SnapFrames(last.pre)))

ScenarioB ==
  /\ easingType = "linear"
  /\ SnapFrames(last.pre) = {0, 50, 100}
  /\ SnapValue(last.pre, 0) = 0
  /\ SnapValue(last.pre, 50) = Half
  /\ SnapValue(last.pre, 100) = Unit

C9_AllPerPair ==
  Did("all") =>
    /\ \A i \in 1..Len(AllPairsOfLast) :
         /\ SnapProp(SnapKf(Snapshot(heap, cur), AllPairsOfLast[i][1]), "RH")
              = SnapVec(SnapHandles(easingType, last.pre, AllPairsOfLast[i][1], AllPairsOfLast[i][2]).rh1.x,
                        SnapHandles(easingType, last.pre, AllPairsOfLast[i][1], AllPairsOfLast[i][2]).rh1.y)
         /\ SnapProp(SnapKf(Snapshot(heap, cur), AllPairsOfLast[i][2]), "LH")
              = SnapVec(SnapHandles(easingType, last.pre, AllPairsOfLast[i][1], AllPairsOfLast[i][2]).lh2.x,
                        SnapHandles(easingType, last.pre, AllPairsOfLast[i][1], AllPairsOfLast[i][2]).lh2.y)
    /\ ScenarioB =>
         \* thirds of 50 frames and of 0.5, in model units
         /\ 3 * SnapProp(SnapKf(Snapshot(heap, cur), 50), "RH")[3]["0"][2] = 50 * Unit
         /\ 3 * SnapProp(SnapKf(Snapshot(heap, cur), 50), "RH")[3]["1"][2] = Half
         /\ 3 * SnapProp(SnapKf(Snapshot(heap, cur), 50), "LH")[3]["0"][2] = 0 - 50 * Unit
         /\ 3 * SnapProp(SnapKf(Snapshot(heap, cur), 50), "LH")[3]["1"][2] = 0 - Half

C9_Witness == phase = "once" /\ Did("all") /\ ScenarioB

----------------------------------------------------------------------------
(* C10: for linear, the handles written for f1 < f2 are exactly one third  *)
(* of the segment: outgoing ((f2-f1)/3, (v2-v1)/3) and incoming            *)
(* (-(f2-f1)/3, -(v2-v1)/3), whatever the catalog stores for linear.       *)

\* coordinate i ("0" or "1") of handle q of the result's keyframe at f
CurCoord(f, q, i) == SnapProp(SnapKf(Snapshot(heap, cur), f), q)[3][i][2]

C10_LinearExact ==
  (Did("pair") /\ easingType = "linear") =>
    /\ 3 * CurCoord(last.f1, "RH", "0") = (last.f2 - last.f1) * Unit
    /\ 3 * CurCoord(last.f1, "RH", "1")
         = SnapValue(last.pre, last.f2) - SnapValue(last.pre, last.f1)
    /\ CurCoord(last.f2, "LH", "0") = 0 - CurCoord(last.f1, "RH", "0")
    /\ CurCoord(last.f2, "LH", "1") = 0 - CurCoord(last.f1, "RH", "1")

\* a linear pair call across a change of value
C10_Witness ==
  /\ Did("pair") /\ easingType = "linear"
  /\ SnapValue(last.pre, last.f2) # SnapValue(last.pre, last.f1)

----------------------------------------------------------------------------
(* C6: fromFusionFormat, given a set with a keyframe whose value cannot be *)
(* parsed as a number (a non-numeric string, or an object still nested     *)
(* after one unwrap), fails and returns no set.                            *)

\* the value of keyframe data, after the one unwrap, is not a number and
\* does not parse as one
Malformed(h, data) ==
  \/ IsRef(Unwrap(h, FromRawValue(h, data)))
  \/ /\ Unwrap(h, FromRawValue(h, data))[1] = "string"
     /\ ParseNumber(Unwrap(h, FromRawValue(h, data))[2]) = NaN

C6_MalformedFails ==
  (/\ last.op = "from"
   /\ \E f \in DOMAIN heap[last.arg[2]].m : Malformed(heap, heap[last.arg[2]].m[f])) =>
    (last.st = "throw" /\ cur = Undef)

----------------------------------------------------------------------------
(* Reading the handler's state                                             *)

Issued(e) == \E i \in 1..Len(trace) : trace[i] = e
Count(e) == Cardinality({i \in 1..Len(trace) : trace[i] = e})

\* the frames the spline held when the request arrived
HostFrames == SnapFrames(origSnap)
HostUnchanged == host = orig /\ Snapshot(heap, host) = origSnap

ChainRequest == Len(params.frames) >= 2
PairRequest == ~ChainRequest /\ params.frame1 # <<>> /\ params.frame2 # <<>>
NoRepeat(list) == \A i, j \in 1..Len(list) : list[i] = list[j] => i = j

\* the request names a frame the spline does not hold
RefersMissing ==
  \/ ChainRequest /\ \E i \in 1..Len(params.frames) : params.frames[i] \notin HostFrames
  \/ PairRequest /\ (params.frame1[1] \notin HostFrames \/ params.frame2[1] \notin HostFrames)

\* every pair of the request is a pair f1 < f2 of frames the spline holds
RequestValid ==
  /\ ChainRequest =>
       /\ NoRepeat(params.frames)
       /\ \A i \in 1..Len(params.frames) : params.frames[i] \in HostFrames
  /\ PairRequest =>
       /\ params.frame1[1] \in HostFrames /\ params.frame2[1] \in HostFrames
       /\ params.frame1[1] < params.frame2[1]

\* the read gave the keyframes and the handler's two checks passed
EasingReached ==
  /\ keyframeResult = "keyframes"
  /\ Cardinality(HostFrames) >= 2
  /\ isSingleBezier(easingType)

----------------------------------------------------------------------------
(* C3: when the request's pair, or its chain of two or more frames at any  *)
(* position, names a frame the set does not hold, the easing fails: the    *)
(* handler returns an error (Keyframes must exist, for frames given once), *)
(* no set is returned, no set Lua is issued, no SetKeyFrames runs and the  *)
(* spline's keyframes are what they were.                                  *)
C3_NotFoundAllOrNothing ==
  (EasingReached /\ RefersMissing) =>
    /\ pc = "done"
    /\ reply.t = "error"
    /\ NoRepeat(params.frames) => reply.error = ErrNotFound
    /\ cur = Undef
    /\ ~Issued("setKeyframesLua")
    /\ ~Issued("SetKeyFrames")
    /\ HostUnchanged

\* a chain of three frames whose first pair exists and was computed before
\* the missing third frame was met
C3_Witness ==
  /\ pc = "done"
  /\ EasingReached
  /\ Len(params.frames) = 3
  /\ SortList(params.frames)[1] \in HostFrames
  /\ SortList(params.frames)[2] \in HostFrames
  /\ SortList(params.frames)[3] \notin HostFrames
  /\ reply.error = ErrNotFound

----------------------------------------------------------------------------
(* C5: the set Lua is issued only after the read gave keyframes, the set   *)
(* has at least 2 of them, the curve is a single bezier and every pair of  *)
(* the request is valid; SetKeyFrames runs only inside an issued set Lua;  *)
(* a run that ends before that returns an error, leaves the spline's       *)
(* keyframes as they were and has issued each earlier call once.           *)
C5_NoHostMutationOnFailure ==
  /\ Issued("setKeyframesLua") =>
       /\ keyframeResult = "keyframes"
       /\ Cardinality(HostFrames) >= 2
       /\ isSingleBezier(easingType)
       /\ RequestValid
  /\ Issued("SetKeyFrames") => Issued("setKeyframesLua")
  /\ ~Issued("setKeyframesLua") => HostUnchanged
  /\ (pc = "done" /\ ~Issued("setKeyframesLua")) =>
       /\ reply.t = "error"
       /\ Count("getFusionComp") = 1
       /\ Count("getKeyframesLua") <= 1
  /\ Count("setKeyframesLua") <= 1

\* the read succeeded on two or more keyframes and the curve check failed
C5_Witness ==
  /\ pc = "done"
  /\ keyframeResult = "keyframes"
  /\ Cardinality(HostFrames) >= 2
  /\ ~isSingleBezier(easingType)
  /\ reply.error = ErrNotSingle
  /\ ~Issued("setKeyframesLua")

----------------------------------------------------------------------------
(* C11: for a catalog curve other than linear with control points          *)
(* (x1, y1, x2, y2) and f1 < f2, calculateHandles returns                  *)
(* outgoing = P1 - (f1, v1) and incoming = P2 - (f2, v2) with              *)
(* P1 = (f1 + (f2-f1)*x1, v1 + (v2-v1)*y1) and                            *)
(* P2 = (f1 + (f2-f1)*x2, v1 + (v2-v1)*y2); easeOutCubic between (0, 0)    *)
(* and (100, 1) gives outgoing (33, 1) and incoming (-32, 0).              *)

\* the control points of the calculator call, in thousandths
CalcPoints == BEZIER_PRESETS[calc.name]

ScenarioA ==
  /\ calc.op = "calculate" /\ calc.name = "easeOutCubic"
  /\ calc.frame1 = 0 /\ calc.value1 = 0 /\ calc.frame2 = 100 /\ calc.value2 = Unit

C11_BezierHandleFormula ==
  (/\ calc.op = "calculate"
   /\ calc.name \in DOMAIN BEZIER_PRESETS \ {"linear"}
   /\ calc.frame1 < calc.frame2) =>
    /\ calc.handles.t = "handles"
    \* all four equations multiplied by 1000, the denominator of the points
    /\ 1000 * (calc.frame1 * Unit + calc.handles.rh1.x)
         = 1000 * calc.frame1 * Unit + (calc.frame2 - calc.frame1) * Unit * CalcPoints[1]
    /\ 1000 * (calc.value1 + calc.handles.rh1.y)
         = 1000 * calc.value1 + (calc.value2 - calc.value1) * CalcPoints[2]
    /\ 1000 * (calc.frame2 * Unit + calc.handles.lh2.x)
         = 1000 * calc.frame1 * Unit + (calc.frame2 - calc.frame1) * Unit * CalcPoints[3]
    /\ 1000 * (calc.value2 + calc.handles.lh2.y)
         = 1000 * calc.value1 + (calc.value2 - calc.value1) * CalcPoints[4]
    /\ ScenarioA =>
         /\ calc.handles.rh1 = [x |-> 33 * Unit, y |-> Unit]
         /\ calc.handles.lh2 = [x |-> 0 - 32 * Unit, y |-> 0]

C11_Witness == ScenarioA /\ calc.handles.t = "handles"

----------------------------------------------------------------------------
(* C12: calculateHandles returns null for every name without a catalog     *)
(* entry and a pair of handles for every name with one.                    *)
C12_NullOrHandles ==
  calc.op = "calculate" =>
    calc.handles.t = (IF calc.name \in DOMAIN BEZIER_PRESETS THEN "handles" ELSE "null")

----------------------------------------------------------------------------
(* C14: calculateHandles with frame1 >= frame2 returns no handle offsets,  *)
(* for every curve name.                                                   *)
C14_RangeEnforced ==
  (calc.op = "calculate" /\ calc.frame1 >= calc.frame2) => calc.handles.t # "handles"

----------------------------------------------------------------------------
(* C20: for every name, isSingleBezier(name) is true exactly when          *)
(* getBezierPoints(name) is not null, exactly when listSupportedEasings()  *)
(* lists the name and exactly when getSupportedEasingGroups() holds it;    *)
(* no elastic or bounce name is in any of them.                            *)
C20_CatalogViewsAgree ==
  calc.op = "query" =>
    /\ calc.single <=> (calc.points # Null)
    /\ calc.single <=> calc.listed
    /\ calc.single <=> calc.grouped
    /\ calc.name \in ElasticBounceNames => ~calc.single

----------------------------------------------------------------------------
(* C13: applyEasingToKeyframePair with frame1 >= frame2 fails and returns  *)
(* no set, for every set and curve name; the error is the range error when *)
(* both frames are in the set, and the not-found error, which is checked   *)
(* first, when one of them is not.                                         *)

\* the last call was a pair call with frame1 >= frame2
PairNotIncreasing == last.op = "pair" /\ last.f1 >= last.f2
BothInSet == last.f1 \in SnapFrames(last.pre) /\ last.f2 \in SnapFrames(last.pre)

C13_NonIncreasingPairFails ==
  PairNotIncreasing =>
    /\ last.st = "throw"
    /\ cur = Undef
    /\ last.err = (IF BothInSet THEN ErrRange ELSE ErrNotFound)

\* the statement without the condition on the frames being in the set: the
\* error is the range error for every set
C13_AlwaysRangeError ==
  PairNotIncreasing => (last.st = "throw" /\ cur = Undef /\ last.err = ErrRange)

\* a pair call with frame1 = frame2, a frame of the set, on a set of two or
\* more keyframes
C13_Witness ==
  /\ PairNotIncreasing /\ last.f1 = last.f2 /\ BothInSet
  /\ Cardinality(SnapFrames(last.pre)) >= 2
  /\ last.err = ErrRange

----------------------------------------------------------------------------
(* C15: a chain request whose frame list is not strictly increasing (out   *)
(* of order, or with a frame given twice) is rejected: the handler returns *)
(* an error, issues no set Lua and leaves the spline's keyframes alone.    *)

StrictlyIncreasing(list) == \A i \in 1..(Len(list) - 1) : list[i] < list[i + 1]

C15_UnorderedChainRejected ==
  (EasingReached /\ ChainRequest /\ ~StrictlyIncreasing(params.frames)) =>
    /\ pc = "done"
    /\ reply.t = "error"
    /\ ~Issued("setKeyframesLua")
    /\ HostUnchanged

----------------------------------------------------------------------------
(* C16: applyEasingToKeyframes on a set of 0 or 1 keyframes throws 'Need   *)
(* at least 2 keyframes to apply easing' and returns no set; the handler,  *)
(* when the read gives fewer than 2 keyframes, returns that error, issues  *)
(* no set Lua and leaves the spline's keyframes alone.                     *)
C16_InsufficientKeyframes ==
  /\ (last.op = "all" /\ Cardinality(SnapFrames(last.pre)) < 2) =>
       /\ last.st = "throw"
       /\ last.err = ErrTooFew
       /\ cur = Undef
  /\ (keyframeResult = "keyframes" /\ Cardinality(HostFrames) < 2) =>
       /\ pc = "done"
       /\ reply = ErrorReply(ErrTooFew)
       /\ ~Issued("setKeyframesLua")
       /\ ~Issued("SetKeyFrames")
       /\ HostUnchanged

\* a direct call on a set of one keyframe
C16_Witness ==
  /\ last.op = "all"
  /\ Cardinality(SnapFrames(last.pre)) = 1
  /\ last.err = ErrTooFew

----------------------------------------------------------------------------
(* Reading a raw keyframe set                                               *)

IsObj(e) == e[1] = "object"
\* the value a raw keyframe carries: the number itself, index 0 of an array,
\* or the value property of an object
RawValueOf(e) ==
  IF ~IsObj(e) THEN e ELSE IF e[2] THEN SnapProp(e, "0") ELSE SnapProp(e, "value")
\* handle q of a raw keyframe, undefined when absent
RawHandleOf(e, q) == IF IsObj(e) THEN SnapProp(e, q) ELSE Undef
\* the two offsets of a handle given as [x, y] or as {x, y}
OffsetsOf(hd) ==
  IF hd[2] THEN <<SnapProp(hd, "0"), SnapProp(hd, "1")>>
  ELSE <<SnapProp(hd, "x"), SnapProp(hd, "y")>>
ValidHandle(hd) ==
  hd = Undef \/ (IsObj(hd) /\ IsNum(OffsetsOf(hd)[1]) /\ IsNum(OffsetsOf(hd)[2]))
\* a keyframe in one of the supported raw shapes
ValidKf(e) ==
  /\ IsNum(RawValueOf(e))
  /\ ValidHandle(RawHandleOf(e, "LH"))
  /\ ValidHandle(RawHandleOf(e, "RH"))
ValidRaw(snap) == \A f \in SnapFrames(snap) : ValidKf(SnapKf(snap, f))
\* handle q of result keyframe k is the raw keyframe e's: absent with it,
\* and otherwise the array of its two offsets
SameHandle(k, e, q) ==
  IF RawHandleOf(e, q) = Undef THEN SnapProp(k, q) = Undef
  ELSE SnapProp(k, q) = SnapVec(OffsetsOf(RawHandleOf(e, q))[1][2],
                                OffsetsOf(RawHandleOf(e, q))[2][2])
\* the last call was toFusionFormat on what fromFusionFormat gives for the
\* raw set
RoundTrip ==
  /\ phase = "twice"
  /\ last.op = "to"
  /\ last.pre = ResultSnap(fromFusionFormat(heap, orig))

----------------------------------------------------------------------------
(* C17: for a raw set r whose keyframes are bare numbers, objects {value,   *)
(* LH?, RH?} or arrays [value] with LH/RH, all numeric,                     *)
(* toFusionFormat(fromFusionFormat(r)) returns a set with the frames of r,  *)
(* each keyframe an array holding r's value at index 0, with LH and RH      *)
(* present exactly where r has them and carrying the same two offsets.      *)
C17_AdapterRoundTrip ==
  (ValidRaw(origSnap) /\ RoundTrip) =>
    /\ last.st = "ok"
    /\ SnapFrames(Snapshot(heap, cur)) = SnapFrames(origSnap)
    /\ \A f \in SnapFrames(origSnap) :
         /\ SnapKf(Snapshot(heap, cur), f)[2]
         /\ SnapProp(SnapKf(Snapshot(heap, cur), f), "0") = RawValueOf(SnapKf(origSnap, f))
         /\ SameHandle(SnapKf(Snapshot(heap, cur), f), SnapKf(origSnap, f), "LH")
         /\ SameHandle(SnapKf(Snapshot(heap, cur), f), SnapKf(origSnap, f), "RH")

\* a round trip of a set of two keyframes in different shapes, one of them
\* with an {x, y} handle and without the other handle
C17_Witness ==
  /\ ValidRaw(origSnap)
  /\ RoundTrip
  /\ Cardinality(SnapFrames(origSnap)) = 2
  /\ \E f \in SnapFrames(origSnap), g \in SnapFrames(origSnap) :
       /\ ~IsObj(SnapKf(origSnap, f))
       /\ RawHandleOf(SnapKf(origSnap, g), "LH") = Undef
       /\ RawHandleOf(SnapKf(origSnap, g), "RH") # Undef
       /\ ~RawHandleOf(SnapKf(origSnap, g), "RH")[2]

----------------------------------------------------------------------------
(* C18: fromFusionFormat on a keyframe {value: {value: n}} with n a number *)
(* gives the keyframe {value: n}, with LH and RH present exactly where the  *)
(* outer object has them and carrying the same offsets.                     *)

\* raw keyframe e is an object whose value is an object with a numeric value
DoubleWrapped(e) ==
  /\ IsObj(e)
  /\ ~e[2]
  /\ IsObj(SnapProp(e, "value"))
  /\ IsNum(SnapProp(SnapProp(e, "value"), "value"))

C18_UnwrapOneLevel ==
  (last.op = "from" /\ phase = "once") =>
    \A f \in SnapFrames(origSnap) :
      DoubleWrapped(SnapKf(origSnap, f)) =>
        /\ ~SnapKf(Snapshot(heap, cur), f)[2]
        /\ SnapProp(SnapKf(Snapshot(heap, cur), f), "value")
             = SnapProp(SnapProp(SnapKf(origSnap, f), "value"), "value")
        /\ SnapProp(SnapKf(Snapshot(heap, cur), f), "0") = Undef
        /\ SameHandle(SnapKf(Snapshot(heap, cur), f), SnapKf(origSnap, f), "LH")
        /\ SameHandle(SnapKf(Snapshot(heap, cur), f), SnapKf(origSnap, f), "RH")

\* a double-wrapped keyframe with both handles, and one without handles
C18_Witness ==
  /\ last.op = "from"
  /\ phase = "once"
  /\ \E f \in SnapFrames(origSnap), g \in SnapFrames(origSnap) :
       /\ DoubleWrapped(SnapKf(origSnap, f))
       /\ RawHandleOf(SnapKf(origSnap, f), "LH") # Undef
       /\ DoubleWrapped(SnapKf(origSnap, g))
       /\ RawHandleOf(SnapKf(origSnap, g), "LH") = Undef

----------------------------------------------------------------------------
(* C19: once the handler's set step has called SetKeyFrames, the spline's  *)
(* keyframes in the host, and every state of them the undo history leads   *)
(* back to, are either the keyframes the request found or the eased set    *)
(* the handler sent: no state holds the new keyframes with handles other   *)
(* than the ones sent.                                                     *)

\* the keyframes s are the ones before the request or the ones sent
AllOrNone(s) ==
  \/ Snapshot(heap, s) = origSnap
  \/ Snapshot(heap, s) = ResultSnap(SetKeyFrames(heap, cur))

C19_AtomicCommit ==
  Issued("SetKeyFrames") =>
    /\ AllOrNone(host)
    /\ \A i \in 1..Len(undo) : AllOrNone(undo[i])

----------------------------------------------------------------------------
(* C21: the catalog holds linear and the In, Out and InOut variants of the *)
(* sine, quadratic, cubic, quartic, quintic, exponential, circular and     *)
(* back families, and no other name: 25 names in all.                      *)

FamilyNames ==
  {"linear"} \cup
  {"ease" \o variant \o family :
     variant \in {"In", "Out", "InOut"},
     family \in {"Sine", "Quad", "Cubic", "Quart", "Quint", "Expo", "Circ", "Back"}}

C21_CatalogNames ==
  calc.op = "list" =>
    /\ FamilyNames \subseteq calc.names
    /\ Cardinality(calc.names) = 25

\* the claim with the count it states: 33 names
C21_ThirtyThreeNames ==
  calc.op = "list" =>
    /\ FamilyNames \subseteq calc.names
    /\ Cardinality(calc.names) = 33

C21_Witness == calc.op = "list" /\ "easeInOutBack" \in calc.names

----------------------------------------------------------------------------
(* C22: every catalog entry has x1 and x2 in [0, 1] and, outside the back  *)
(* family, y1 and y2 in [0, 1]; for every catalog curve and frame1 <       *)
(* frame2 the outgoing handle's x-offset is in [0, frame2 - frame1] and    *)
(* the incoming handle's x-offset is in [-(frame2 - frame1), 0].           *)

BackNames == {"easeInBack", "easeOutBack", "easeInOutBack"}
InUnit(c) == 0 <= c /\ c <= 1000

C22_OffsetDirection ==
  (calc.op = "calculate" /\ calc.name \in DOMAIN BEZIER_PRESETS) =>
    /\ InUnit(CalcPoints[1]) /\ InUnit(CalcPoints[3])
    /\ calc.name \notin BackNames => (InUnit(CalcPoints[2]) /\ InUnit(CalcPoints[4]))
    /\ calc.frame1 < calc.frame2 =>
         /\ calc.handles.t = "handles"
         /\ 0 <= calc.handles.rh1.x
         /\ calc.handles.rh1.x <= (calc.frame2 - calc.frame1) * Unit
         /\ 0 - (calc.frame2 - calc.frame1) * Unit <= calc.handles.lh2.x
         /\ calc.handles.lh2.x <= 0

\* a back curve, whose y leaves [0, 1], on an increasing pair
C22_Witness ==
  /\ calc.op = "calculate"
  /\ calc.name = "easeInOutBack"
  /\ calc.frame1 < calc.frame2
  /\ calc.handles.rh1.x > 0
  /\ calc.handles.lh2.x < 0
  /\ ~InUnit(CalcPoints[4])

----------------------------------------------------------------------------
(* C30: on a representable curve, applyEasingToKeyframePair called on its  *)
(* own result with the same frames f1 < f2 returns a set equal to that     *)
(* result, and applyEasingToKeyframes called on its own result returns a   *)
(* set equal to that result.                                               *)

\* the last call was made on what the same call returned for the first set
Repeated(op) == phase = "twice" /\ Did(op)

C30_Idempotent ==
  /\ Repeated("pair") => Snapshot(heap, cur) = last.pre
  /\ (/\ Repeated("all")
      /\ last.pre = ResultSnap(applyEasingToKeyframes(heap, orig, easingType))) =>
       Snapshot(heap, cur) = last.pre

\* a pair call repeated on a set of three keyframes that carried handles and
\* whose values differ, so the handles written are not zero
C30_Witness ==
  /\ Repeated("pair")
  /\ Cardinality(SnapFrames(origSnap)) = 3
  /\ SnapValue(origSnap, last.f1) # SnapValue(origSnap, last.f2)
  /\ SnapProp(SnapKf(origSnap, last.f1), "RH") # Undef
  /\ SnapProp(SnapKf(Snapshot(heap, cur), last.f1), "RH") # SnapProp(SnapKf(origSnap, last.f1), "RH")

----------------------------------------------------------------------------
(* C26: the table the handler sends to SetKeyFrames, and the spline's       *)
(* keyframes once SetKeyFrames has run, have exactly the frames the read    *)
(* gave, each with the value the read gave, in every mode of the request.   *)

\* table snapshot t has the frames and the values of the keyframes read
SameFramesAndValues(t) ==
  /\ SnapFrames(t) = HostFrames
  /\ \A f \in HostFrames : SnapValue(t, f) = SnapValue(origSnap, f)

C26_FramesAndValuesKept ==
  /\ Issued("setKeyframesLua") => SameFramesAndValues(Snapshot(heap, cur))
  /\ Issued("SetKeyFrames") => SameFramesAndValues(Snapshot(heap, host))

\* a chain request that succeeded on three keyframes, one with a value
\* other than 0, and changed a handle
C26_Witness ==
  /\ pc = "done"
  /\ reply.t = "success"
  /\ ChainRequest
  /\ Cardinality(HostFrames) = 3
  /\ \E f \in HostFrames : SnapValue(origSnap, f) = Unit
  /\ Snapshot(heap, host) # origSnap

----------------------------------------------------------------------------
(* C27: a request that names frames, in its frames list or as frame1 or    *)
(* frame2, changes no handle of a keyframe at a frame it does not name;    *)
(* all consecutive pairs are eased only by a request that names no frame.  *)

\* the frames the request names
Named ==
  {params.frames[i] : i \in 1..Len(params.frames)}
  \cup {params.frame1[i] : i \in 1..Len(params.frame1)}
  \cup {params.frame2[i] : i \in 1..Len(params.frame2)}

C27_ModeSelection ==
  (Issued("setKeyframesLua") /\ Named # {}) =>
    \A f \in HostFrames \ Named :
      /\ SnapProp(SnapKf(Snapshot(heap, cur), f), "LH") = SnapProp(SnapKf(origSnap, f), "LH")
      /\ SnapProp(SnapKf(Snapshot(heap, cur), f), "RH") = SnapProp(SnapKf(origSnap, f), "RH")

----------------------------------------------------------------------------
(* C23: at most one call of the bridge at a time is between setting the    *)
(* lock and releasing it, and the lock is set while a call is there; a     *)
(* call that gave up waiting for the lock has run no Lua code and written  *)
(* no file.                                                                *)

\* call c has set the lock and not yet released it
InSection(c) == bridge.at[c] \in {"execute", "wait"}

----------------------------------------------------------------------------
(* C24: the lock is set only while a call is between acquiring it and its  *)
(* return, so every call that acquired it has released it when it has      *)
(* returned, on each of its paths; and every call that waits for the lock  *)
(* eventually acquires it or returns null.                                 *)
C24_LockReleased ==
  /\ [](bridge.luaBridgeLock => \E c \in Calls : InSection(c))
  /\ \A c \in Calls :
       (bridge.at[c] = "sleep") ~> (InSection(c) \/ bridge.at[c] = "returned")

\* calls have returned after a read that threw and after finding no file,
\* the lock is free again, and a call that slept is about to test it
C24_Witness ==
  \E c \in Calls, d \in Calls, e \in Calls :
    /\ bridge.how[c] = "readError"
    /\ bridge.how[d] = "missing"
    /\ bridge.at[e] = "sleep"
    /\ ~bridge.luaBridgeLock

----------------------------------------------------------------------------
(* C25: once a call has returned and the host is through with its Lua code, *)
(* no result file of the call is on disk.                                  *)
C25_TempFilesRemoved ==
  \A c \in Calls :
    (bridge.at[c] = "returned" /\ bridge.lua[c] # "running") => ~bridge.file[c]


----------------------------------------------------------------------------
(* C28: the tool-selection guard is always released.  An invocation of     *)
(* onToolSelect sets isSelectingTool and is the only code to clear it, so  *)
(* the guard is released exactly when it is never set while no invocation  *)
(* is under way: once onToolSelect is over with the guard set, every later *)
(* invocation returns at its first line and the guard stays set for ever.  *)
C28_GuardReleased ==
  renderer.at = "on" /\ renderer.isSelectingTool => renderer.sel.at # "idle"

----------------------------------------------------------------------------
(* C29: the selection floor.  A keyframe click, plain or with shift, on a  *)
(* selection of at least 2 frames leaves at least 2 frames selected, and   *)
(* no click shortens a selection of 2 frames or fewer; and onApply sends a *)
(* request only with the selection as it is, of at least 2 frames, also    *)
(* when a refresh has shrunk the selection since the last click.           *)
ClickFloor ==
  KeyframeClick =>
    /\ Len(renderer.selectedFrames) >= 2 => Len(renderer'.selectedFrames) >= 2
    /\ Len(renderer'.selectedFrames) < Len(renderer.selectedFrames)
         => Len(renderer.selectedFrames) > 2

ApplyFloor ==
  renderer.at = "on" /\ renderer.apply # "applyEasing" /\ renderer'.apply = "applyEasing"
    => /\ Len(renderer.selectedFrames) >= 2
       /\ renderer'.sent = renderer.selectedFrames

C29_SelectionFloor == [][ClickFloor /\ ApplyFloor]_vars

\* a request is out with the frames 0 and 100 of a timeline of three: the
\* middle frame was deselected by a plain click on the full selection
C29_Witness ==
  /\ renderer.at = "on"
  /\ renderer.apply = "applyEasing"
  /\ renderer.keyframes = <<0, 50, 100>>
  /\ renderer.sent = <<0, 100>>

====
